---- MODULE Spec2Model ----
(***************************************************************************)
(* DataManager server: the file store (File rows, tag/group rows, content  *)
(* blobs on disk) and the request handlers that act on it.  Every handler  *)
(* runs in a goroutine of its own (net/http), so a handler is a sequence   *)
(* of steps, one per round trip to the database, the file system or the    *)
(* network, and steps of different workers interleave.  The lookup of the  *)
(* namespace a request names is taken together with the statement that     *)
(* follows it: no step writes the namespaces.                              *)
(***************************************************************************)
EXTENDS Integers, Sequences, FiniteSets, TLC

\* ------------------------------------------------------------------ bounds
\* File rows the store may hold (ids 1..MaxFiles).
MaxFiles == 2
\* Size of the space gaw.RandString(40) draws local storage names from.
NumLocalNames == 2
\* Size of the space public names (slugs) are drawn from.
NumSlugs == 2
\* Sub-actions one update request may hold.
MaxSubActions == 2
\* The URL content ceiling of the limited role (Role.MaxURLcontentSize).
LimitedRoleMaxURL == 2

\* ------------------------------------------------------- program constants
\* for i := 0; i < 5; i++  (FileHandler.go:86)
MaxAllocAttempts == 5

Workers == {"w1", "w2"}
LocalNames == 1..NumLocalNames
Slugs == 1..NumSlugs
NullSlug == 0            \* sql.NullString{Valid: false}

\* ------------------------------------------------------ users, namespaces
\* The User, Role and Namespace models are not part of the sources at hand;
\* they are modelled from the specification (Access Policy, Namespace
\* Registry): user 1 has a limited role, user 2 an unlimited one that may
\* write foreign namespaces, user 3 may not upload at all.
Users == 1..3
UserRole ==
  << [uploadFiles |-> TRUE,  uploadURLs |-> TRUE,  writeForeign |-> FALSE,
      readForeign |-> FALSE, hasLimit |-> TRUE,  maxURL |-> LimitedRoleMaxURL],
     [uploadFiles |-> TRUE,  uploadURLs |-> TRUE,  writeForeign |-> TRUE,
      readForeign |-> TRUE,  hasLimit |-> FALSE, maxURL |-> 0],
     [uploadFiles |-> FALSE, uploadURLs |-> FALSE, writeForeign |-> FALSE,
      readForeign |-> FALSE, hasLimit |-> TRUE,  maxURL |-> LimitedRoleMaxURL] >>

CanUploadFiles(u) == UserRole[u].uploadFiles
AllowedToUploadURLs(u) == UserRole[u].uploadURLs
CanWriteForeignNamespace(u) == UserRole[u].writeForeign
CanReadForeignNamespace(u) == UserRole[u].readForeign
HasUploadLimit(u) == UserRole[u].hasLimit

\* Namespace rows: id = index.  Namespace 1 is the default namespace.
NsTable == << [name |-> "default", owner |-> 1], [name |-> "n2", owner |-> 2] >>
NsIds == DOMAIN NsTable

\* FindNamespace: the empty name resolves to the default namespace, an
\* unknown name to nil (0).
FindNamespace(n) ==
  IF n = "" THEN 1
  ELSE IF \E i \in NsIds : NsTable[i].name = n
       THEN CHOOSE i \in NsIds : NsTable[i].name = n
       ELSE 0

IsOwnedBy(ns, u) == NsTable[ns].owner = u

\* ------------------------------------------------------------- pure helpers

\* GetMD5Hash stands for a digest of the content: a checksum over the bytes
\* (position-weighted, modulo a small prime).
RECURSIVE Weighted(_, _)
Weighted(s, k) == IF s = <<>> THEN 0 ELSE k * Head(s) + Weighted(Tail(s), k + 1)
GetMD5Hash(d) == Weighted(d, 1) % 7

\* A URL is kept parsed: its scheme and the rest.  The empty URL has both
\* parts empty.
isValidHTTPURL(u) == u.scheme \in {"http", "https"}
URLLen(u) == IF u.scheme = "" /\ u.rest = "" THEN 0 ELSE 1

\* The ids of a set, in ascending order (the order a Preload returns rows in).
RECURSIVE SetToSeq(_)
SetToSeq(S) ==
  IF S = {} THEN <<>>
  ELSE LET m == CHOOSE x \in S : \A y \in S : x <= y
       IN <<m>> \o SetToSeq(S \ {m})

SeqToSet(s) == {s[i] : i \in DOMAIN s}

\* The file names in use, letter by letter, and SQL's name LIKE '%sub%': sub
\* occurs in name as a run of letters.
NameChars(n) ==
  CASE n = "" -> <<>>
    [] n = "ab" -> <<"a", "b">>
    [] OTHER -> <<n>>
Like(name, sub) ==
  LET c == NameChars(name)
      p == NameChars(sub) IN
  \E i \in 0..(Len(c) - Len(p)) : SubSeq(c, i + 1, i + Len(p)) = p

\* ------------------------------------------------------------------- state
VARIABLES
  files,      \* File rows, id = index: the "files" table with its join tables
  tagRows,    \* Tag rows, id = index
  groupRows,  \* Group rows, id = index
  blobs,      \* the storage directory: local name -> size of the blob, -1 = no file
  pc,         \* per worker: the handler's position
  req,        \* per worker: the request being handled
  mem,        \* per worker: the handler's local variables
  res,        \* per worker: the response sent
  handlerData \* the one handlerData all route handlers share: its user field

vars == <<files, tagRows, groupRows, blobs, pc, req, mem, res, handlerData>>
store == <<files, tagRows, groupRows, blobs>>

FileIds == DOMAIN files
NoBlob == -1

\* Responses (sendResponse / sendServerError): status flag, message, HTTP code.
NoRes == [ok |-> FALSE, msg |-> "", code |-> 0, fileID |-> 0]
ErrRes(m, c) == [ok |-> FALSE, msg |-> m, code |-> c, fileID |-> 0]
ServerError == ErrRes("internal server error", 500)
OkRes(m, id) == [ok |-> TRUE, msg |-> m, code |-> 200, fileID |-> id]

NoReq == [kind |-> "none"]

\* models.File as a handler holds it in memory.  id = 0: not inserted.
NoFile ==
  [id |-> 0, name |-> "", localName |-> 0, uploader |-> 0, ns |-> 0, size |-> 0,
   isPublic |-> FALSE, slug |-> NullSlug, tags |-> <<>>, groups |-> <<>>]

\* No answer of an upstream server (see UpstreamResponses).
NoUp == [err |-> FALSE, status |-> 0, declared |-> -1, body |-> 0, fail |-> ""]

\* A handler's locals.  tries: existence checks made by the allocation loop;
\* blob: os.Create succeeded; stage: the step at which the handler returned;
\* applied: the sub-actions that returned without an error; changed: a
\* sub-action that returned without an error altered the stored rows;
\* retFiles: the items of a listing; fetched: the length of the body the
\* upstream server sent for a URL upload that was stored; user: the user of
\* the handlerData copy a route's handler function was called with; sent: the
\* number of bytes a preview copied to its response.  While a method of File
\* that works on tags or groups runs: i: the names (or held rows) its loop has
\* dealt with; grew: the loop appended a row to the in-memory list; cleared:
\* its Clear deleted join rows; newRows: the rows resolved in the new namespace.
\* While downloadHTTP runs: up: the answer http.Get got; written: the bytes
\* io.Copy has written.  The descriptor of the blob a handler holds open: ino:
\* empty while the file it was opened on still has its directory entry, else
\* the workers whose descriptors were open on the file when it was removed;
\* isize: the size of that removed file.  While a listing runs: filterTags /
\* filterGroups: the rows FindTags / FindGroups returned; foundFiles: the rows
\* of the query as they are loaded so far.
NoMem ==
  [file |-> NoFile, tries |-> 0, blob |-> FALSE, stage |-> "", didUpdate |-> FALSE,
   applied |-> <<>>, changed |-> FALSE, slug |-> NullSlug, retFiles |-> <<>>,
   fetched |-> 0, user |-> 0, sent |-> NoBlob,
   i |-> 0, grew |-> FALSE, cleared |-> FALSE, newRows |-> <<>>,
   up |-> NoUp, written |-> 0, ino |-> {}, isize |-> 0,
   filterTags |-> {}, filterGroups |-> {}, foundFiles |-> <<>>]

\* The locals of a method of File are gone when it returns.
Returned(m) == [m EXCEPT !.i = 0, !.grew = FALSE, !.cleared = FALSE, !.newRows = <<>>]

\* A handler function works on its own copy of handlerData: none of its steps
\* writes the shared one.
Respond(w, r, m) ==
  /\ pc' = [pc EXCEPT ![w] = "done"]
  /\ res' = [res EXCEPT ![w] = r]
  /\ mem' = [mem EXCEPT ![w] = m]
  /\ UNCHANGED handlerData

\* A step to position p that leaves the locals of all workers as ms (a step
\* that acts on a file other handlers hold open).
GotoAll(w, p, ms) ==
  /\ pc' = [pc EXCEPT ![w] = p]
  /\ mem' = ms
  /\ UNCHANGED <<res, handlerData>>

Free(w) == pc[w] \in {"idle", "done"}

Goto(w, p, m) == GotoAll(w, p, [mem EXCEPT ![w] = m])

\* The answer of a handler that worked on a loaded file: the request and the
\* copy of the file are gone with the handler; the id of the file and what the
\* handler did are kept on record.
Answer(w, r, m) ==
  /\ Respond(w, r, [Returned(m) EXCEPT !.file = [NoFile EXCEPT !.id = m.file.id]])
  /\ req' = [req EXCEPT ![w] = NoReq]

\* The next step of such a handler.
Step(w, p, m) ==
  /\ Goto(w, p, m)
  /\ UNCHANGED req

\* A request reaches a free worker: its handler starts at p.
Receive(w, r, p) ==
  /\ Free(w)
  /\ req' = [req EXCEPT ![w] = r]
  /\ pc' = [pc EXCEPT ![w] = p]
  /\ mem' = [mem EXCEPT ![w] = NoMem]
  /\ res' = [res EXCEPT ![w] = NoRes]
  /\ UNCHANGED handlerData

\* ----------------------------------------------------------- store queries
Live(id) == id \in FileIds /\ ~files[id].deleted

\* db.Model(&File{}).Where(&File{LocalName: localName}).Count(&c)
CountLocalName(l) == Cardinality({id \in FileIds : Live(id) /\ files[id].localName = l})

\* The row db.Create / db.Save writes for an in-memory file.
RowOf(f, oldTags, oldGroups, del) ==
  [name |-> f.name, localName |-> f.localName, uploader |-> f.uploader, ns |-> f.ns,
   size |-> f.size, isPublic |-> f.isPublic, slug |-> f.slug,
   tags |-> oldTags \cup SeqToSet(f.tags), groups |-> oldGroups \cup SeqToSet(f.groups),
   deleted |-> del]

\* ------------------------------------------------------------ open files
\* A Write that ends at offset n of a file of size b: nothing truncates the
\* file, a longer content stays.
WriteAt(b, n) == IF n > b THEN n ELSE b

\* The workers that hold a descriptor open on the file with the directory
\* entry l: an upload from os.Create to f.Close, a preview while it copies.
Holders(l) ==
  {v \in Workers : /\ pc[v] \in {"store", "copy", "insert", "prevcopy"}
                   /\ mem[v].file.localName = l
                   /\ mem[v].ino = {}}

\* os.Remove of the file l: the locals of the workers afterwards.  The file
\* lives on, without a name, for the descriptors that are open on it.
Removed(l) ==
  [v \in Workers |-> IF v \in Holders(l)
                     THEN [mem[v] EXCEPT !.ino = Holders(l), !.isize = blobs[l]]
                     ELSE mem[v]]

\* The size of the file worker w's descriptor is open on.
FileSize(w) == IF mem[w].ino = {} THEN blobs[mem[w].file.localName] ELSE mem[w].isize

\* A Write through worker w's descriptor that ends at offset n: the storage
\* directory afterwards, and the locals of the workers afterwards when those
\* of w become m.  A file that was removed is written for the descriptors that
\* are open on it only.
WriteBlobs(w, n) ==
  IF mem[w].ino = {} THEN [blobs EXCEPT ![mem[w].file.localName] = WriteAt(@, n)]
  ELSE blobs

WriteMems(w, n, m) ==
  [v \in Workers |->
     LET cur == IF v = w THEN m ELSE mem[v] IN
     IF mem[w].ino # {} /\ mem[v].ino = mem[w].ino
     THEN [cur EXCEPT !.isize = WriteAt(@, n)]
     ELSE cur]

\* ------------------------------------------------------------ UploadfileHandler
\* An upstream server's answer to http.Get: a transport error, or a status, a
\* declared Content-Length (-1: none declared) and a body; fail: the body is
\* delivered whole (""), the connection breaks before the last byte of the
\* body ("copy"), or closing the body fails ("close").
BodyFaults == {"", "copy", "close"}
UpstreamResponses ==
  { [err |-> TRUE, status |-> 0, declared |-> -1, body |-> 0, fail |-> ""] }
  \cup { [err |-> FALSE, status |-> s, declared |-> IF k THEN b ELSE -1, body |-> b,
          fail |-> f] :
           s \in {200, 404}, b \in {1, LimitedRoleMaxURL + 1}, k \in BOOLEAN, f \in BodyFaults }

\* UploadValidate without the comparison of the digest with the checksum.
UploadValidateNoSum(r) ==
  IF r.uploadType = "file" /\ ~CanUploadFiles(r.user)
    THEN ErrRes("not allowed to upload files", 403)
  ELSE IF r.uploadType = "url" /\ ~AllowedToUploadURLs(r.user)
    THEN ErrRes("not allowed to upload urls", 403)
  ELSE IF r.uploadType = "url" /\ (URLLen(r.url) = 0 \/ ~isValidHTTPURL(r.url))
    THEN ErrRes("missing or malformed url", 422)
  ELSE IF r.uploadType \notin {"file", "url"}
    THEN ErrRes("invalid upload type", 422)
  ELSE IF FindNamespace(r.ns) = 0
    THEN ErrRes("namespace not found", 404)
  ELSE IF ~IsOwnedBy(FindNamespace(r.ns), r.user) /\ ~CanWriteForeignNamespace(r.user)
    THEN ErrRes("Write permission denied for foreign namespaces", 403)
  ELSE NoRes

\* Lines 21-75: the checks made before anything is allocated.  NoRes: passed.
UploadValidate(r) ==
  IF r.uploadType = "file" /\ ~CanUploadFiles(r.user)
    THEN ErrRes("not allowed to upload files", 403)
  ELSE IF r.uploadType = "file" /\ GetMD5Hash(r.data) # r.sum
    THEN ErrRes("Content wasn't delivered completely", 422)
  ELSE IF r.uploadType = "url" /\ ~AllowedToUploadURLs(r.user)
    THEN ErrRes("not allowed to upload urls", 403)
  ELSE IF r.uploadType = "url" /\ (URLLen(r.url) = 0 \/ ~isValidHTTPURL(r.url))
    THEN ErrRes("missing or malformed url", 422)
  ELSE IF r.uploadType \notin {"file", "url"}
    THEN ErrRes("invalid upload type", 422)
  ELSE IF FindNamespace(r.ns) = 0
    THEN ErrRes("namespace not found", 404)
  ELSE IF ~IsOwnedBy(FindNamespace(r.ns), r.user) /\ ~CanWriteForeignNamespace(r.user)
    THEN ErrRes("Write permission denied for foreign namespaces", 403)
  ELSE NoRes

\* gaw.RandString(20), the name of an upload that gives none.
RandNames == {"r"}

UploadsInFlight ==
  Cardinality({w \in Workers :
                 pc[w] \in {"alloc", "create", "store", "copy", "insert", "insgroup", "mkgroup",
                            "instag", "mktag", "dbcreate"}})

\* Lines 15-81: parse, validate, pick the name, resolve the namespace.
UploadBegin(w, r) ==
  /\ Free(w)
  /\ Len(files) + UploadsInFlight < MaxFiles
  /\ req' = [req EXCEPT ![w] = r]
  /\ LET v == UploadValidate(r) IN
       IF v # NoRes
       THEN Respond(w, v, [NoMem EXCEPT !.stage = "validate"])
       ELSE \E n \in (IF r.name = "" THEN RandNames ELSE {r.name}) :
              Goto(w, "alloc",
                   [NoMem EXCEPT !.file = [NoFile EXCEPT !.name = n,
                                                         !.ns = FindNamespace(r.ns),
                                                         !.uploader = r.user]])
  /\ UNCHANGED store

\* UploadAlloc with a loop that runs once more (i <= 5).
UploadAllocOneMore(w) ==
  /\ pc[w] = "alloc"
  /\ \E l \in LocalNames :
       LET m == [mem[w] EXCEPT !.tries = @ + 1] IN
       IF CountLocalName(l) = 0
       THEN Goto(w, "create", [m EXCEPT !.file.localName = l])
       ELSE IF m.tries <= MaxAllocAttempts
       THEN Goto(w, "alloc", m)
       ELSE Respond(w, ServerError, [m EXCEPT !.stage = "alloc"])
  /\ UNCHANGED <<store, req>>

\* Lines 83-112: one pass of the allocation loop: draw a name, count the rows
\* that hold it; leave the loop on a free name or after the last attempt.
UploadAlloc(w) ==
  /\ pc[w] = "alloc"
  /\ \E l \in LocalNames :
       LET m == [mem[w] EXCEPT !.tries = @ + 1] IN
       IF CountLocalName(l) = 0
       THEN Goto(w, "create", [m EXCEPT !.file.localName = l])
       ELSE IF m.tries < MaxAllocAttempts
       THEN Goto(w, "alloc", m)
       ELSE Respond(w, ServerError, [m EXCEPT !.stage = "alloc"])
  /\ UNCHANGED <<store, req>>

\* Lines 114-119: os.Create makes the file, or empties the one that is there.
UploadCreate(w) ==
  /\ pc[w] = "create"
  /\ \/ /\ blobs' = [blobs EXCEPT ![mem[w].file.localName] = 0]
        /\ Goto(w, "store", [mem[w] EXCEPT !.blob = TRUE])
     \/ /\ Respond(w, ServerError, [mem[w] EXCEPT !.stage = "create"])
        /\ UNCHANGED blobs
  /\ UNCHANGED <<files, tagRows, groupRows, req>>

\* strconv.Itoa of a number that is not negative.
DecimalDigits == <<"0", "1", "2", "3", "4", "5", "6", "7", "8", "9">>
RECURSIVE Itoa(_)
Itoa(n) ==
  IF n < 10 THEN DecimalDigits[n + 1]
  ELSE Itoa(n \div 10) \o DecimalDigits[(n % 10) + 1]

\* downloadHTTP, lines 146-159: http.Get and what is decided before the body
\* is read: the status and the error returned at once; a 2xx answer without an
\* error has its body copied next.
downloadHTTP(u, up) ==
  IF up.err THEN [status |-> 0, err |-> "get"]
  ELSE IF up.status < 200 \/ up.status > 299 THEN [status |-> up.status, err |-> ""]
  ELSE IF HasUploadLimit(u) /\ up.declared > UserRole[u].maxURL
    THEN [status |-> up.status, err |-> "File too large"]
  ELSE [status |-> up.status, err |-> ""]

\* Lines 121-143: write the request's bytes into the file (one Write), or call
\* downloadHTTP, whose first statement is http.Get.
UploadStore(w) ==
  /\ pc[w] = "store"
  /\ IF req[w].uploadType = "file"
     THEN LET n == Len(req[w].data) IN
          \/ /\ blobs' = WriteBlobs(w, n)
             /\ GotoAll(w, "insert", WriteMems(w, n, [mem[w] EXCEPT !.file.size = n]))
          \/ /\ Respond(w, ServerError, [mem[w] EXCEPT !.stage = "write"])
             /\ UNCHANGED blobs
     ELSE /\ \E up \in UpstreamResponses :
               LET d == downloadHTTP(req[w].user, up) IN
               IF d.err # ""
               THEN Respond(w, ErrRes(d.err, 400), [mem[w] EXCEPT !.stage = "fetch"])
               ELSE IF d.status > 299 \/ d.status < 200
               THEN Respond(w, ErrRes("Non ok response: " \o Itoa(d.status), 400),
                            [mem[w] EXCEPT !.stage = "fetch"])
               ELSE Goto(w, "copy", [mem[w] EXCEPT !.up = up])
          /\ UNCHANGED blobs
  /\ UNCHANGED <<files, tagRows, groupRows, req>>

\* downloadHTTP, lines 161-183, one pass of io.Copy's loop at a time: a Read
\* from the body returns some of the bytes that are left and they are written
\* to the file; or the Read fails because the connection broke; or it returns
\* EOF, and the body is closed and the size set.  The reader of a user with a
\* limit returns EOF after maxURL bytes, before a break of the connection
\* behind them is seen.  What was written before an error stays in the file.
UploadCopy(w) ==
  /\ pc[w] = "copy"
  /\ LET u == req[w].user
         up == mem[w].up
         n == mem[w].written
         limited == HasUploadLimit(u)
         avail == IF up.fail = "copy" THEN up.body - 1 ELSE up.body
         room == IF limited /\ avail > UserRole[u].maxURL THEN UserRole[u].maxURL ELSE avail
         m == [mem[w] EXCEPT !.up = NoUp, !.written = 0] IN
     IF n < room
     THEN \E k \in 1..(room - n) :
            /\ blobs' = WriteBlobs(w, n + k)
            /\ GotoAll(w, "copy", WriteMems(w, n + k, [mem[w] EXCEPT !.written = n + k]))
     ELSE /\ UNCHANGED blobs
          /\ IF up.fail = "copy" /\ ~(limited /\ n >= UserRole[u].maxURL)
             THEN Respond(w, ErrRes("copy", 400), [m EXCEPT !.stage = "fetch"])
             ELSE IF up.fail = "close"
             THEN Respond(w, ErrRes("close", 400), [m EXCEPT !.stage = "fetch"])
             ELSE Goto(w, "insert", [m EXCEPT !.file.size = n, !.fetched = up.body])
  /\ UNCHANGED <<files, tagRows, groupRows, req>>

\* File.Insert goes on with the next group that has no row yet, then the next
\* tag, then db.Create.  mem.file.groups / tags hold the rows resolved so far.
InsertNext(w, m) ==
  IF Len(m.file.groups) < Len(req[w].groups) THEN Goto(w, "insgroup", m)
  ELSE IF Len(m.file.tags) < Len(req[w].tags) THEN Goto(w, "instag", m)
  ELSE Goto(w, "dbcreate", m)

\* Lines 145-152: close the file and call File.Insert.
UploadInsert(w) ==
  /\ pc[w] = "insert"
  /\ \/ Respond(w, ServerError, [mem[w] EXCEPT !.stage = "close"])
     \/ InsertNext(w, mem[w])
  /\ UNCHANGED <<store, req>>

\* File.Insert, lines 48-53: db.Where(&Group{Name: ...}).Find for the next
\* group.  The name alone is looked up; Find puts no order on the rows, so any
\* row with the name may be the one read.  No row: Group.Insert is next.
InsertFindGroup(w) ==
  /\ pc[w] = "insgroup"
  /\ LET n == req[w].groups[Len(mem[w].file.groups) + 1]
         hits == {g \in DOMAIN groupRows : groupRows[g].name = n} IN
     IF hits = {} THEN Goto(w, "mkgroup", mem[w])
     ELSE \E g \in hits : InsertNext(w, [mem[w] EXCEPT !.file.groups = Append(@, g)])
  /\ UNCHANGED <<store, req>>

\* The store's uniqueness constraint on the rows of tags and of groups: no
\* second row with the name in the namespace.
NameFree(rows, n, ns) == \A i \in DOMAIN rows : ~(rows[i].name = n /\ rows[i].ns = ns)

\* A tag or group of the in-memory file that has no row: its id is zero.
NoRow == 0

\* File.Insert, line 54: Group.Insert makes the row, in the group's namespace;
\* the insert fails when the namespace has a row with the name.  Line 54 drops
\* what Group.Insert returns and nothing reads the row again: after a failed
\* insert the group of the file is still without a row.
InsertNewGroup(w) ==
  /\ pc[w] = "mkgroup"
  /\ LET n == req[w].groups[Len(mem[w].file.groups) + 1] IN
     IF NameFree(groupRows, n, mem[w].file.ns)
     THEN /\ groupRows' = Append(groupRows, [name |-> n, ns |-> mem[w].file.ns])
          /\ InsertNext(w, [mem[w] EXCEPT !.file.groups = Append(@, Len(groupRows) + 1)])
     ELSE /\ UNCHANGED groupRows
          /\ InsertNext(w, [mem[w] EXCEPT !.file.groups = Append(@, NoRow)])
  /\ UNCHANGED <<files, tagRows, blobs, req>>

\* File.Insert, lines 59-64: the same lookup for the next tag.
InsertFindTag(w) ==
  /\ pc[w] = "instag"
  /\ LET n == req[w].tags[Len(mem[w].file.tags) + 1]
         hits == {t \in DOMAIN tagRows : tagRows[t].name = n} IN
     IF hits = {} THEN Goto(w, "mktag", mem[w])
     ELSE \E t \in hits : InsertNext(w, [mem[w] EXCEPT !.file.tags = Append(@, t)])
  /\ UNCHANGED <<store, req>>

\* File.Insert, line 65: Tag.Insert, the same for the tag.
InsertNewTag(w) ==
  /\ pc[w] = "mktag"
  /\ LET n == req[w].tags[Len(mem[w].file.tags) + 1] IN
     IF NameFree(tagRows, n, mem[w].file.ns)
     THEN /\ tagRows' = Append(tagRows, [name |-> n, ns |-> mem[w].file.ns])
          /\ InsertNext(w, [mem[w] EXCEPT !.file.tags = Append(@, Len(tagRows) + 1)])
     ELSE /\ UNCHANGED tagRows
          /\ InsertNext(w, [mem[w] EXCEPT !.file.tags = Append(@, NoRow)])
  /\ UNCHANGED <<files, groupRows, blobs, req>>

\* File.Insert, lines 69-78, and the answer of lines 152-159: db.Create makes
\* the row and its join rows, or fails.  It inserts a tag or group of the file
\* that has no row along with the file, in the same transaction: that insert
\* fails on the row that made Tag.Insert / Group.Insert fail (rows are never
\* deleted), and db.Create with it.
InsertCreate(w) ==
  /\ pc[w] = "dbcreate"
  /\ \/ /\ NoRow \notin SeqToSet(mem[w].file.tags) \cup SeqToSet(mem[w].file.groups)
        /\ files' = Append(files, RowOf(mem[w].file, {}, {}, FALSE))
        /\ Respond(w, OkRes("", Len(files) + 1),
                   [mem[w] EXCEPT !.file.id = Len(files) + 1, !.stage = "ok"])
     \/ /\ UNCHANGED files
        /\ Respond(w, ServerError, [mem[w] EXCEPT !.stage = "insert"])
  /\ UNCHANGED <<tagRows, groupRows, blobs, req>>

\* ------------------------------------------------------------- upload requests
URLs == { [scheme |-> "", rest |-> ""], [scheme |-> "http", rest |-> "h"],
          [scheme |-> "ftp", rest |-> "h"] }
NoURL == [scheme |-> "", rest |-> ""]

UploadReq(u, t, d, s, url, n, ns, tg, gr) ==
  [kind |-> "upload", user |-> u, uploadType |-> t, data |-> d, sum |-> s, url |-> url,
   name |-> n, ns |-> ns, tags |-> tg, groups |-> gr]

\* The uploads tried, one worker at a time: raw uploads with a right and a
\* wrong checksum, URL uploads with each kind of URL by a limited and an
\* unlimited user, an unknown upload type, an unknown and a foreign namespace,
\* an upload without a name, and one with a repeated tag and a group.
UploadRequests ==
  { UploadReq(u, "file", <<2, 1>>, s, NoURL, "a", "", <<>>, <<>>) :
      u \in {1, 3}, s \in {GetMD5Hash(<<2, 1>>), GetMD5Hash(<<1>>)} }
  \cup { UploadReq(1, "url", <<>>, 0, url, "a", "", <<>>, <<>>) : url \in URLs }
  \cup { UploadReq(u, "url", <<>>, 0, [scheme |-> "http", rest |-> "h"], "a", "n2", <<>>, <<>>) :
           u \in {2, 3} }
  \cup { UploadReq(1, "other", <<>>, 0, NoURL, "a", "", <<>>, <<>>) }
  \cup { UploadReq(1, "file", <<2, 1>>, GetMD5Hash(<<2, 1>>), NoURL, "", ns, <<>>, <<>>) :
           ns \in {"n2", "zz"} }
  \cup { UploadReq(1, "file", <<2, 1>>, GetMD5Hash(<<2, 1>>), NoURL, "", "", <<"x", "x">>, <<"g">>) }

\* The uploads two workers race with.
RaceRequests ==
  { UploadReq(1, "file", <<1>>, GetMD5Hash(<<1>>), NoURL, "a", "", <<>>, <<>>),
    UploadReq(1, "file", <<1>>, GetMD5Hash(<<1>>), NoURL, "a", "", <<"x">>, <<"g">>) }

\* ------------------------------------------------------------------- upload spec
InitWorkers ==
  /\ pc = [w \in Workers |-> "idle"]
  /\ req = [w \in Workers |-> NoReq]
  /\ mem = [w \in Workers |-> NoMem]
  /\ res = [w \in Workers |-> NoRes]
  /\ handlerData = [user |-> 0]

\* The state after construction: an empty store.
InitUpload ==
  /\ files = <<>>
  /\ tagRows = <<>>
  /\ groupRows = <<>>
  /\ blobs = [l \in LocalNames |-> NoBlob]
  /\ InitWorkers

\* The steps of an upload of raw bytes.
FileUploadStep(w) ==
  \/ UploadAlloc(w)
  \/ UploadCreate(w)
  \/ UploadStore(w)
  \/ UploadInsert(w)
  \/ InsertFindGroup(w)
  \/ InsertNewGroup(w)
  \/ InsertFindTag(w)
  \/ InsertNewTag(w)
  \/ InsertCreate(w)

\* The steps of any upload.
UploadStep(w) ==
  \/ FileUploadStep(w)
  \/ UploadCopy(w)

\* One request at a time.
NextUpload ==
  \/ \E r \in UploadRequests : UploadBegin("w1", r)
  \/ UploadStep("w1")

SpecUpload == InitUpload /\ [][NextUpload]_vars

\* Two requests at a time.
NextUploadRace ==
  \E w \in Workers :
    \/ \E r \in RaceRequests : UploadBegin(w, r)
    \/ FileUploadStep(w)

SpecUploadRace == InitUpload /\ [][NextUploadRace]_vars

\* ------------------------------------------------------------------ File.Save
\* No constraint on the public name.
SlugFreeAlways(fs, id, s) == TRUE

\* PublicFilename is declared gorm:"unique": no two rows, deleted or not, may
\* hold the same non-null public name.
SlugFree(fs, id, s) ==
  s = NullSlug \/ \A j \in DOMAIN fs : (j # id) => fs[j].slug # s

\* File.Save (db.Save) of an in-memory file on the table fs: the set of possible
\* <<table afterwards, failed>>.  The statement may fail as any statement may;
\* it fails on the unique constraint; it updates every column of a live row and
\* adds the join rows of the tags and groups held in memory.  On a soft-deleted
\* row the UPDATE (WHERE deleted_at IS NULL) touches no row, the join rows are
\* still added and the INSERT gorm falls back to fails on the primary key.
SaveResults(fs, f) ==
  { <<fs, TRUE>> }
  \cup IF f.id \notin DOMAIN fs THEN {}
       ELSE IF fs[f.id].deleted
         THEN { <<[fs EXCEPT ![f.id].tags = @ \cup SeqToSet(f.tags),
                             ![f.id].groups = @ \cup SeqToSet(f.groups)], TRUE>> }
       ELSE IF ~SlugFree(fs, f.id, f.slug) THEN {}
       ELSE { <<[fs EXCEPT ![f.id] = RowOf(f, fs[f.id].tags, fs[f.id].groups, FALSE)], FALSE>> }

\* A row as its SELECT loads it: the columns; the lists of tags and groups are
\* empty until a Preload fills them.
LoadRow(id) ==
  [id |-> id, name |-> files[id].name, localName |-> files[id].localName,
   uploader |-> files[id].uploader, ns |-> files[id].ns, size |-> files[id].size,
   isPublic |-> files[id].isPublic, slug |-> files[id].slug,
   tags |-> <<>>, groups |-> <<>>]

\* What Preload("Tags") / Preload("Groups") loads for the row with the id: the
\* rows its join rows point to.
LoadTags(id) == SetToSeq(files[id].tags)
LoadGroups(id) == SetToSeq(files[id].groups)

\* A row with its tags and groups, all read from one state of the store.
LoadFile(id) ==
  [LoadRow(id) EXCEPT !.tags = LoadTags(id), !.groups = LoadGroups(id)]

\* FindFile (part_000:127-142): the first live row, by id, with the name in the
\* namespace uploaded by the user (and with the id, when one is given); 0: none.
FindFile(name, fileID, ns, user) ==
  LET hits == {id \in FileIds : /\ Live(id)
                                /\ files[id].name = name
                                /\ files[id].ns = ns
                                /\ files[id].uploader = user
                                /\ (fileID # 0 => id = fileID)}
  IN IF hits = {} THEN 0 ELSE CHOOSE id \in hits : \A j \in hits : id <= j

\* File.GetCount (part_000:276-296): the live rows with the name (a zero field of
\* the Where struct puts no condition) in the namespace, and with the id when
\* one is given.  The user is not part of the statement.
GetCount(name, ns, fileID) ==
  Cardinality({id \in FileIds : /\ Live(id)
                                /\ (name # "" => files[id].name = name)
                                /\ files[id].ns = ns
                                /\ (fileID # 0 => id = fileID)})

\* GetPublicFile (part_000:298-311): is there a live row with the public name.
GetPublicFile(s) == \E id \in FileIds : Live(id) /\ files[id].slug = s

\* --------------------------------------------------------------- File.Publish
\* The caller of File.Publish is not part of the sources at hand; the request
\* loads the live file with the given id and hands it to Publish.
PublishReceive(w, r) ==
  /\ Receive(w, r, "pubload")
  /\ UNCHANGED store

PublishBegin(w) ==
  /\ pc[w] = "pubload"
  /\ IF Live(req[w].fileID)
     THEN Step(w, "pubcheck", [NoMem EXCEPT !.file = LoadFile(req[w].fileID)])
     ELSE Answer(w, ErrRes("File not found", 404), NoMem)
  /\ UNCHANGED store

\* Publish without the lookup of the public name.
PublishCheckNoLookup(w) ==
  /\ pc[w] = "pubcheck"
  /\ \E s \in (IF req[w].slug = NullSlug THEN Slugs ELSE {req[w].slug}) :
       Step(w, "pubsave", [mem[w] EXCEPT !.file.slug = s, !.file.isPublic = TRUE, !.slug = s])
  /\ UNCHANGED store

\* File.Publish, lines 350-367: pick the public name, set it and IsPublic in
\* memory, look the name up; a row that holds it is a conflict.
PublishCheck(w) ==
  /\ pc[w] = "pubcheck"
  /\ \E s \in (IF req[w].slug = NullSlug THEN Slugs ELSE {req[w].slug}) :
       LET m == [mem[w] EXCEPT !.file.slug = s, !.file.isPublic = TRUE, !.slug = s] IN
       IF GetPublicFile(s)
       THEN Answer(w, ErrRes("conflict", 409), [m EXCEPT !.stage = "conflict"])
       ELSE Step(w, "pubsave", m)
  /\ UNCHANGED store

\* File.Publish, line 370: save the file.
PublishSave(w) ==
  /\ pc[w] = "pubsave"
  /\ \E sr \in SaveResults(files, mem[w].file) :
       /\ files' = sr[1]
       /\ IF sr[2]
          THEN Answer(w, ServerError, [mem[w] EXCEPT !.stage = "pubsave"])
          ELSE Answer(w, OkRes("success", 0), [mem[w] EXCEPT !.stage = "ok"])
  /\ UNCHANGED <<tagRows, groupRows, blobs>>

\* ---------------------------------------------------------- UpdateFileHandler
\* GetTag / GetGroup (not part of the sources at hand): the row with the name in
\* the namespace, created when there is none.  <<rows afterwards, id>>.
GetTag(rows, n, ns) ==
  LET hits == {t \in DOMAIN rows : rows[t].name = n /\ rows[t].ns = ns}
  IN IF hits = {} THEN <<Append(rows, [name |-> n, ns |-> ns]), Len(rows) + 1>>
     ELSE <<rows, CHOOSE t \in hits : \A u \in hits : t <= u>>

\* File.HasTag / HasGroup: one of the held rows has the name.
HasTag(rows, held, n) == \E i \in DOMAIN held : rows[held[i]].name = n

\* The loop of File.AddTags / AddGroups after i names: the position of the next
\* name that is not held, the one GetTag / GetGroup is called for; 0: the loop
\* is through.
NextNew(names, rows, held, i) ==
  LET c == {k \in (i + 1)..Len(names) : ~HasTag(rows, held, names[k])}
  IN IF c = {} THEN 0 ELSE CHOOSE k \in c : \A j \in c : k <= j

\* The loop of File.RemoveTags / RemoveGroups: the held rows whose name is not
\* in the list.
RemoveNames(names, rows, held) ==
  SelectSeq(held, LAMBDA t : rows[t].name \notin SeqToSet(names))

\* strconv.ParseBool: <<value, ok>>.
ParseBool(str) ==
  IF str \in {"1", "t", "T", "TRUE", "true", "True"} THEN <<TRUE, TRUE>>
  ELSE IF str \in {"0", "f", "F", "FALSE", "false", "False"} THEN <<FALSE, TRUE>>
  ELSE <<FALSE, FALSE>>

\* The sub-actions of an update in the order of lines 327-394.  (The branch
\* for a new namespace, lines 351-354, is empty.)
SubOrder == <<"rename", "setvis", "addtags", "rmtags", "addgroups", "rmgroups">>
Present(r, k) ==
  CASE k = 1 -> r.newName # ""
    [] k = 2 -> r.isPublic # ""
    [] k = 3 -> r.addTags # <<>>
    [] k = 4 -> r.rmTags # <<>>
    [] k = 5 -> r.addGroups # <<>>
    [] k = 6 -> r.rmGroups # <<>>

\* Lines 398-407: the answer of a handler that got through.
FinalRes(didUpdate) ==
  IF didUpdate THEN OkRes("success", 0) ELSE ErrRes("noting to do", 200)

\* Go on with the first sub-action after the k-th that the request holds, or
\* answer when there is none.
AfterSub(w, m, k) ==
  LET later == {j \in DOMAIN SubOrder : j > k /\ Present(req[w], j)} IN
  IF later = {} THEN Answer(w, FinalRes(m.didUpdate), [m EXCEPT !.stage = "ok"])
  ELSE Step(w, SubOrder[CHOOSE j \in later : \A i \in later : j <= i], Returned(m))

\* Lines 249-253: the request is read.
UpdateReceive(w, r) ==
  /\ Receive(w, r, "count")
  /\ UNCHANGED store

\* UpdateBegin without the answer for several files with the name.
UpdateBeginNoConflict(w) ==
  /\ pc[w] = "count"
  /\ LET r == req[w]
         ns == FindNamespace(r.ns) IN
     IF ns = 0
       THEN Answer(w, ErrRes("Namespace not found", 200), NoMem)
     ELSE IF ~IsOwnedBy(ns, r.user) /\ ~CanWriteForeignNamespace(r.user)
       THEN Answer(w, ErrRes("Write permission denied for foreign namespaces", 403), NoMem)
     ELSE IF "action" \notin DOMAIN r
       THEN Answer(w, ErrRes("missing action", 200), NoMem)
     ELSE IF r.action \notin {"delete", "update"}
       THEN Answer(w, ErrRes("invalid action", 200), NoMem)
     ELSE \/ Answer(w, ServerError, [NoMem EXCEPT !.stage = "count"])
          \/ IF GetCount(r.name, ns, r.fileID) = 0
                THEN Answer(w, ErrRes("File not found", 200), NoMem)
              ELSE Step(w, "find", NoMem)
  /\ UNCHANGED store

\* Lines 255-304: namespace, permission, action (the route's path always
\* carries one), and the count of the files with the name that decides Conflict
\* and NotFound; a count statement that fails is answered with a server error
\* (lines 288-292).
UpdateBegin(w) ==
  /\ pc[w] = "count"
  /\ LET r == req[w]
         ns == FindNamespace(r.ns) IN
     IF ns = 0
       THEN Answer(w, ErrRes("Namespace not found", 200), NoMem)
     ELSE IF ~IsOwnedBy(ns, r.user) /\ ~CanWriteForeignNamespace(r.user)
       THEN Answer(w, ErrRes("Write permission denied for foreign namespaces", 403), NoMem)
     ELSE IF "action" \notin DOMAIN r
       THEN Answer(w, ErrRes("missing action", 200), NoMem)
     ELSE IF r.action \notin {"delete", "update"}
       THEN Answer(w, ErrRes("invalid action", 200), NoMem)
     ELSE \/ Answer(w, ServerError, [NoMem EXCEPT !.stage = "count"])
          \/ IF GetCount(r.name, ns, r.fileID) > 1 /\ r.fileID = 0
                THEN Answer(w, ErrRes("multiple files with same name", 200), NoMem)
              ELSE IF GetCount(r.name, ns, r.fileID) = 0
                THEN Answer(w, ErrRes("File not found", 200), NoMem)
              ELSE Step(w, "find", NoMem)
  /\ UNCHANGED store

\* Lines 306-311 with FindFile (part_000:127-142), one statement at a time.
\* First the SELECT of the row (First: the live row with the smallest id); no
\* row is answered with a server error and no Preload runs.
UpdateFind(w) ==
  /\ pc[w] = "find"
  /\ LET id == FindFile(req[w].name, req[w].fileID, FindNamespace(req[w].ns), req[w].user) IN
     IF id = 0 THEN Answer(w, ServerError, [NoMem EXCEPT !.stage = "find"])
     ELSE Step(w, "findns", [NoMem EXCEPT !.file = LoadRow(id)])
  /\ UNCHANGED store

\* Preload("Namespace"): the SELECT of the namespace of the row that was read
\* (no step writes the namespaces).
FindFilePreloadNamespace(w) ==
  /\ pc[w] = "findns"
  /\ Step(w, "findtags", mem[w])
  /\ UNCHANGED store

\* Preload("Tags"): the SELECT of the tags joined to the row's id, as they are
\* now.
FindFilePreloadTags(w) ==
  /\ pc[w] = "findtags"
  /\ Step(w, "findgroups", [mem[w] EXCEPT !.file.tags = LoadTags(mem[w].file.id)])
  /\ UNCHANGED store

\* Preload("Groups"), the same for the groups; then lines 313-322: the handler
\* enters the action.
FindFilePreloadGroups(w) ==
  /\ pc[w] = "findgroups"
  /\ LET m == [mem[w] EXCEPT !.file.groups = LoadGroups(mem[w].file.id)] IN
     IF req[w].action = "delete" THEN Step(w, "delsave", m)
     ELSE AfterSub(w, m, 0)
  /\ UNCHANGED store

\* File.Delete saving the row with its public name left in place.
DeleteSaveKeepSlug(w) ==
  /\ pc[w] = "delsave"
  /\ LET m == [mem[w] EXCEPT !.didUpdate = TRUE] IN
     \E sr \in SaveResults(files, m.file) :
       /\ files' = sr[1]
       /\ IF sr[2] THEN Answer(w, ServerError, [m EXCEPT !.stage = "delsave"])
          ELSE Step(w, "delblob", m)
  /\ UNCHANGED <<tagRows, groupRows, blobs>>

\* File.Delete, lines 166-176: clear the public name and save.
DeleteSave(w) ==
  /\ pc[w] = "delsave"
  /\ LET m == [mem[w] EXCEPT !.file.isPublic = FALSE, !.file.slug = NullSlug,
                             !.didUpdate = TRUE] IN
     \E sr \in SaveResults(files, m.file) :
       /\ files' = sr[1]
       /\ IF sr[2] THEN Answer(w, ServerError, [m EXCEPT !.stage = "delsave"])
          ELSE Step(w, "delblob", m)
  /\ UNCHANGED <<tagRows, groupRows, blobs>>

\* File.Delete, lines 178-182: remove the blob; a failure is only logged.
DeleteBlob(w) ==
  /\ pc[w] = "delblob"
  /\ \/ /\ blobs' = [blobs EXCEPT ![mem[w].file.localName] = NoBlob]
        /\ GotoAll(w, "delrow", Removed(mem[w].file.localName))
     \/ /\ UNCHANGED blobs
        /\ Goto(w, "delrow", mem[w])
  /\ UNCHANGED <<files, tagRows, groupRows, req>>

\* File.Delete, line 185 (soft delete), and the answer of lines 398-407.
DeleteRow(w) ==
  /\ pc[w] = "delrow"
  /\ \/ /\ files' = [files EXCEPT ![mem[w].file.id].deleted = TRUE]
        /\ Answer(w, FinalRes(mem[w].didUpdate), [mem[w] EXCEPT !.stage = "ok"])
     \/ /\ UNCHANGED files
        /\ Answer(w, ServerError, [mem[w] EXCEPT !.stage = "delrow"])
  /\ UNCHANGED <<tagRows, groupRows, blobs>>

\* Rename that reads the stored row again and changes the name only.
RenameFresh(w) ==
  /\ pc[w] = "rename"
  /\ LET m == [mem[w] EXCEPT !.file = IF Live(mem[w].file.id)
                                      THEN [LoadFile(mem[w].file.id) EXCEPT
                                              !.id = mem[w].file.id,
                                              !.name = req[w].newName]
                                      ELSE [mem[w].file EXCEPT !.name = req[w].newName]] IN
     \E sr \in SaveResults(files, m.file) :
       /\ files' = sr[1]
       /\ IF sr[2] THEN Answer(w, ServerError, [m EXCEPT !.stage = "rename"])
          ELSE AfterSub(w, [m EXCEPT !.didUpdate = TRUE, !.applied = Append(@, "rename"),
                                        !.changed = @ \/ sr[1] # files], 1)
  /\ UNCHANGED <<tagRows, groupRows, blobs>>

\* Lines 327-334 with File.Rename.
Rename(w) ==
  /\ pc[w] = "rename"
  /\ LET m == [mem[w] EXCEPT !.file.name = req[w].newName] IN
     \E sr \in SaveResults(files, m.file) :
       /\ files' = sr[1]
       /\ IF sr[2] THEN Answer(w, ServerError, [m EXCEPT !.stage = "rename"])
          ELSE AfterSub(w, [m EXCEPT !.didUpdate = TRUE, !.applied = Append(@, "rename"),
                                        !.changed = @ \/ sr[1] # files], 1)
  /\ UNCHANGED <<tagRows, groupRows, blobs>>

\* Lines 336-349 with File.SetVilibility.
SetVilibility(w) ==
  /\ pc[w] = "setvis"
  /\ LET b == ParseBool(req[w].isPublic) IN
     IF ~b[2]
     THEN /\ Answer(w, ErrRes("isPublic must be a bool", 422), [mem[w] EXCEPT !.stage = "setvis"])
          /\ UNCHANGED files
     ELSE LET m == [mem[w] EXCEPT !.file.isPublic = b[1]] IN
          \E sr \in SaveResults(files, m.file) :
            /\ files' = sr[1]
            /\ IF sr[2] THEN Answer(w, ServerError, [m EXCEPT !.stage = "setvis"])
               ELSE AfterSub(w, [m EXCEPT !.didUpdate = TRUE, !.applied = Append(@, "setvis"),
                                             !.changed = @ \/ sr[1] # files], 2)
  /\ UNCHANGED <<tagRows, groupRows, blobs>>

\* Lines 356-364 with File.AddTags (part_000:201-211), one database statement
\* at a time: GetTag for the next name that is not held, or, the loop being
\* through, the Save.  didUpdate is assigned, not or-ed.
AddTags(w) ==
  /\ pc[w] = "addtags"
  /\ LET k == NextNew(req[w].addTags, tagRows, mem[w].file.tags, mem[w].i) IN
     IF k # 0
     THEN LET g == GetTag(tagRows, req[w].addTags[k], mem[w].file.ns) IN
          /\ tagRows' = g[1]
          /\ Step(w, "addtags", [mem[w] EXCEPT !.file.tags = Append(@, g[2]),
                                               !.i = k, !.grew = TRUE])
          /\ UNCHANGED files
     ELSE /\ UNCHANGED tagRows
          /\ \E sr \in SaveResults(files, mem[w].file) :
               /\ files' = sr[1]
               /\ IF sr[2] THEN Answer(w, ServerError, [mem[w] EXCEPT !.stage = "addtags"])
                  ELSE AfterSub(w, [mem[w] EXCEPT !.didUpdate = mem[w].grew,
                                                  !.applied = Append(@, "addtags"),
                                                  !.changed = @ \/ sr[1] # files], 3)
  /\ UNCHANGED <<groupRows, blobs>>

\* Lines 366-374 with File.RemoveTags (part_000:214-234): nothing is done on a
\* file without tags or when no held tag is named; else the join rows are
\* deleted (Association.Clear, a statement of its own whose error is dropped)
\* and the tags that are left are set on the in-memory file.
RemoveTags(w) ==
  /\ pc[w] = "rmtags"
  /\ LET held == mem[w].file.tags
         left == RemoveNames(req[w].rmTags, tagRows, held) IN
     IF Len(held) = 0 \/ Len(left) >= Len(held)
     THEN /\ UNCHANGED files
          /\ AfterSub(w, [mem[w] EXCEPT !.didUpdate = FALSE, !.applied = Append(@, "rmtags")], 4)
     ELSE /\ \/ files' = IF mem[w].file.id \in FileIds
                          THEN [files EXCEPT ![mem[w].file.id].tags = {}] ELSE files
             \/ UNCHANGED files
          /\ Step(w, "rmtagssave", [mem[w] EXCEPT !.file.tags = left,
                                                  !.cleared = files' # files])
  /\ UNCHANGED <<tagRows, groupRows, blobs>>

\* File.RemoveTags, line 231: the Save after the Clear.
RemoveTagsSave(w) ==
  /\ pc[w] = "rmtagssave"
  /\ \E sr \in SaveResults(files, mem[w].file) :
       /\ files' = sr[1]
       /\ IF sr[2] THEN Answer(w, ServerError, [mem[w] EXCEPT !.stage = "rmtags"])
          ELSE AfterSub(w, [mem[w] EXCEPT !.didUpdate = TRUE, !.applied = Append(@, "rmtags"),
                                          !.changed = @ \/ mem[w].cleared \/ sr[1] # files], 4)
  /\ UNCHANGED <<tagRows, groupRows, blobs>>

\* Lines 376-384 with File.AddGroups (part_000:237-247), as AddTags.
AddGroups(w) ==
  /\ pc[w] = "addgroups"
  /\ LET k == NextNew(req[w].addGroups, groupRows, mem[w].file.groups, mem[w].i) IN
     IF k # 0
     THEN LET g == GetTag(groupRows, req[w].addGroups[k], mem[w].file.ns) IN
          /\ groupRows' = g[1]
          /\ Step(w, "addgroups", [mem[w] EXCEPT !.file.groups = Append(@, g[2]),
                                                 !.i = k, !.grew = TRUE])
          /\ UNCHANGED files
     ELSE /\ UNCHANGED groupRows
          /\ \E sr \in SaveResults(files, mem[w].file) :
               /\ files' = sr[1]
               /\ IF sr[2] THEN Answer(w, ServerError, [mem[w] EXCEPT !.stage = "addgroups"])
                  ELSE AfterSub(w, [mem[w] EXCEPT !.didUpdate = mem[w].grew,
                                                  !.applied = Append(@, "addgroups"),
                                                  !.changed = @ \/ sr[1] # files], 5)
  /\ UNCHANGED <<tagRows, blobs>>

\* Lines 386-394 with File.RemoveGroups (part_000:250-269): as RemoveTags, but
\* a file that holds groups of which none is named is saved all the same,
\* without a Clear.
RemoveGroups(w) ==
  /\ pc[w] = "rmgroups"
  /\ LET held == mem[w].file.groups
         left == RemoveNames(req[w].rmGroups, groupRows, held) IN
     IF Len(held) = 0
     THEN /\ UNCHANGED files
          /\ AfterSub(w, [mem[w] EXCEPT !.didUpdate = FALSE, !.applied = Append(@, "rmgroups")], 6)
     ELSE IF Len(left) < Len(held)
     THEN /\ \/ files' = IF mem[w].file.id \in FileIds
                          THEN [files EXCEPT ![mem[w].file.id].groups = {}] ELSE files
             \/ UNCHANGED files
          /\ Step(w, "rmgroupssave", [mem[w] EXCEPT !.file.groups = left,
                                                    !.cleared = files' # files])
     ELSE \E sr \in SaveResults(files, mem[w].file) :
            /\ files' = sr[1]
            /\ IF sr[2] THEN Answer(w, ServerError, [mem[w] EXCEPT !.stage = "rmgroups"])
               ELSE AfterSub(w, [mem[w] EXCEPT !.didUpdate = FALSE,
                                               !.applied = Append(@, "rmgroups"),
                                               !.changed = @ \/ sr[1] # files], 6)
  /\ UNCHANGED <<tagRows, groupRows, blobs>>

\* File.RemoveGroups, line 267: the Save after the Clear.
RemoveGroupsSave(w) ==
  /\ pc[w] = "rmgroupssave"
  /\ \E sr \in SaveResults(files, mem[w].file) :
       /\ files' = sr[1]
       /\ IF sr[2] THEN Answer(w, ServerError, [mem[w] EXCEPT !.stage = "rmgroups"])
          ELSE AfterSub(w, [mem[w] EXCEPT !.didUpdate = TRUE, !.applied = Append(@, "rmgroups"),
                                          !.changed = @ \/ mem[w].cleared \/ sr[1] # files], 6)
  /\ UNCHANGED <<tagRows, groupRows, blobs>>

UpdateStep(w) ==
  \/ UpdateBegin(w)
  \/ UpdateFind(w)
  \/ FindFilePreloadNamespace(w)
  \/ FindFilePreloadTags(w)
  \/ FindFilePreloadGroups(w)
  \/ DeleteSave(w)
  \/ DeleteBlob(w)
  \/ DeleteRow(w)
  \/ Rename(w)
  \/ SetVilibility(w)
  \/ AddTags(w)
  \/ RemoveTags(w)
  \/ RemoveTagsSave(w)
  \/ AddGroups(w)
  \/ RemoveGroups(w)
  \/ RemoveGroupsSave(w)

UpdateReq(u, n, id, ns, act, nn, ip, at, rt, ag, rg) ==
  [kind |-> "update", user |-> u, name |-> n, fileID |-> id, ns |-> ns, action |-> act,
   newName |-> nn, isPublic |-> ip, newNs |-> "", addTags |-> at, rmTags |-> rt,
   addGroups |-> ag, rmGroups |-> rg]

\* The request with update.NewNamespace set.
WithNamespace(r, n) == [r EXCEPT !.newNs = n]

PublishReq(id, s) == [kind |-> "publish", fileID |-> id, slug |-> s]

\* ------------------------------------------------------------ ListFilesHandler
\* FindTags / FindGroups (not part of the sources at hand): the rows of the
\* namespace that have one of the names.
FindTags(names, ns) ==
  {t \in DOMAIN tagRows : tagRows[t].name \in SeqToSet(names) /\ tagRows[t].ns = ns}
FindGroups(names, ns) ==
  {g \in DOMAIN groupRows : groupRows[g].name \in SeqToSet(names) /\ groupRows[g].ns = ns}

\* IsInTagList with every tag of the list required.
IsInTagListAll(held, tags) ==
  \A t \in tags : \E i \in DOMAIN held : held[i] = t

\* File.IsInTagList / IsInGroupList: one of the held rows is one of the list.
IsInTagList(held, tags) ==
  \E i \in DOMAIN held : \E t \in tags : held[i] = t

IsInGroupList(held, groups) ==
  \E i \in DOMAIN held : \E g \in groups : held[i] = g

\* A FileResponseItem of a loaded row; the attributes (File.GetAttributes: the
\* names of the tags and groups that were loaded) are filled in above
\* verbosity 1.  (No step changes the name of a tag or group row.)
ResponseItem(f, verbose) ==
  [id |-> f.id, name |-> f.name, size |-> f.size,
   tags |-> IF verbose > 1 THEN [i \in DOMAIN f.tags |-> tagRows[f.tags[i]].name] ELSE <<>>,
   groups |-> IF verbose > 1 THEN [i \in DOMAIN f.groups |-> groupRows[f.groups[i]].name]
              ELSE <<>>]

ListReq(u, ns, n, tg, gr, v) ==
  [kind |-> "list", user |-> u, ns |-> ns, name |-> n, tags |-> tg, groups |-> gr,
   verbose |-> v]

\* Lines 163-167: the request is read.
ListReceive(w, r) ==
  /\ Receive(w, r, "list")
  /\ UNCHANGED store

\* The verbosity levels of a request.
Verbosities == {0, 1, 2, 3}

\* Preload asked for above verbosity 1 only.
PreloadsVerboseOnly(verbose, filter) == verbose > 1

\* Lines 197-203: the tags (groups) of the found files are loaded when the
\* resolved filter is not empty or the verbosity is above 1; a file's list is
\* empty otherwise.
Preloads(verbose, filter) == Cardinality(filter) > 0 \/ verbose > 1

\* Lines 209-218, the SELECT of the rows: the live files of the namespace (with
\* the name pattern), by id.
ListFound(r, ns) ==
  LET ids == SetToSeq({id \in FileIds : /\ Live(id)
                                        /\ files[id].ns = ns
                                        /\ (r.name # "" => Like(files[id].name, r.name))})
  IN [i \in DOMAIN ids |-> LoadRow(ids[i])]

\* Lines 221-241, the filter loop over the loaded rows.
ListFilter(found, tags, groups) ==
  SelectSeq(found, LAMBDA f : /\ (tags = {} \/ IsInTagList(f.tags, tags))
                              /\ (groups = {} \/ IsInGroupList(f.groups, groups)))

\* Lines 182-241 when no other handler writes between the statements: the ids
\* kept, in the order of the rows.
ListKept(r, ns) ==
  LET tags == FindTags(r.tags, ns)
      groups == FindGroups(r.groups, ns)
      found == ListFound(r, ns)
      loaded == [i \in DOMAIN found |->
                   [found[i] EXCEPT
                      !.tags = IF Preloads(r.verbose, tags) THEN LoadTags(found[i].id)
                               ELSE <<>>,
                      !.groups = IF Preloads(r.verbose, groups) THEN LoadGroups(found[i].id)
                                 ELSE <<>>]]
      kept == ListFilter(loaded, tags, groups)
  IN [i \in DOMAIN kept |-> kept[i].id]

\* Go on with the first Preload after the k-th that the request asks for (the
\* statements loaded.Find runs after the SELECT of the rows, in the order the
\* Preloads were asked for); when there is none, lines 220-245: the filter
\* loop and the answer.
ListNext(w, m, k) ==
  LET r == req[w]
      ListPreloadPcs == <<"listpretags", "listpregroups", "listprens">>
      due == {j \in DOMAIN ListPreloadPcs :
                /\ j > k
                /\ CASE j = 1 -> Preloads(r.verbose, m.filterTags)
                     [] j = 2 -> Preloads(r.verbose, m.filterGroups)
                     [] j = 3 -> r.verbose > 2}
  IN IF due = {}
     THEN LET kept == ListFilter(m.foundFiles, m.filterTags, m.filterGroups)
          IN Answer(w, OkRes("", 0),
                    [NoMem EXCEPT !.stage = "ok",
                                  !.retFiles = [i \in DOMAIN kept |->
                                                  ResponseItem(kept[i], r.verbose)]])
     ELSE Step(w, ListPreloadPcs[CHOOSE j \in due : \A i \in due : j <= i], m)

\* Lines 169-180: namespace and permission.  Line 172 hands 404 to
\* sendResponse as the payload and gives no status: the answer goes out as 200
\* (lines 185 and 192 do the same).
ListFilesHandler(w) ==
  /\ pc[w] = "list"
  /\ LET r == req[w]
         ns == FindNamespace(r.ns) IN
     IF ns = 0
       THEN Answer(w, ErrRes("Namespace not found", 200), NoMem)
     ELSE IF ~IsOwnedBy(ns, r.user) /\ ~CanReadForeignNamespace(r.user)
       THEN Answer(w, ErrRes("Read permission denied for foreign namespaces", 403), NoMem)
     ELSE Step(w, "listtags", NoMem)
  /\ UNCHANGED store

\* Lines 182-187: FindTags resolves the tag filter.
ListFindTags(w) ==
  /\ pc[w] = "listtags"
  /\ LET tags == FindTags(req[w].tags, FindNamespace(req[w].ns)) IN
     IF tags = {} /\ Len(req[w].tags) > 0
       THEN Answer(w, ErrRes("No matching tag found", 200), NoMem)
     ELSE Step(w, "listgroups", [mem[w] EXCEPT !.filterTags = tags])
  /\ UNCHANGED store

\* Lines 189-194: FindGroups resolves the group filter.
ListFindGroups(w) ==
  /\ pc[w] = "listgroups"
  /\ LET groups == FindGroups(req[w].groups, FindNamespace(req[w].ns)) IN
     IF groups = {} /\ Len(req[w].groups) > 0
       THEN Answer(w, ErrRes("No matching group found", 200), NoMem)
     ELSE Step(w, "listfind", [mem[w] EXCEPT !.filterGroups = groups])
  /\ UNCHANGED store

\* Lines 196-218: loaded.Find runs the SELECT of the rows.
ListFind(w) ==
  /\ pc[w] = "listfind"
  /\ ListNext(w, [mem[w] EXCEPT !.foundFiles = ListFound(req[w], FindNamespace(req[w].ns))], 0)
  /\ UNCHANGED store

\* Preload("Tags"): the SELECT of the tags joined to the rows that were found,
\* as they are now.
ListPreloadTags(w) ==
  /\ pc[w] = "listpretags"
  /\ LET found == mem[w].foundFiles IN
     ListNext(w, [mem[w] EXCEPT !.foundFiles =
                    [i \in DOMAIN found |->
                       [found[i] EXCEPT !.tags = LoadTags(found[i].id)]]], 1)
  /\ UNCHANGED store

\* Preload("Groups"): the same for the groups.
ListPreloadGroups(w) ==
  /\ pc[w] = "listpregroups"
  /\ LET found == mem[w].foundFiles IN
     ListNext(w, [mem[w] EXCEPT !.foundFiles =
                    [i \in DOMAIN found |->
                       [found[i] EXCEPT !.groups = LoadGroups(found[i].id)]]], 2)
  /\ UNCHANGED store

\* Preload("Namespace") (lines 205-207): the SELECT of the namespaces of the
\* rows (no step writes the namespaces).
ListPreloadNamespace(w) ==
  /\ pc[w] = "listprens"
  /\ ListNext(w, mem[w], 3)
  /\ UNCHANGED store

\* The statements of a listing.
ListStep(w) ==
  \/ ListFilesHandler(w)
  \/ ListFindTags(w)
  \/ ListFindGroups(w)
  \/ ListFind(w)
  \/ ListPreloadTags(w)
  \/ ListPreloadGroups(w)
  \/ ListPreloadNamespace(w)

\* -------------------------------------------------------------------- list spec
\* Uploads into the two namespaces with overlapping names, tags and groups.
ListUploads ==
  { UploadReq(2, "file", <<1>>, GetMD5Hash(<<1>>), NoURL, "ab", "n2", <<"x">>, <<>>),
    UploadReq(1, "file", <<1>>, GetMD5Hash(<<1>>), NoURL, "a", "", <<"x", "y">>, <<"g">>),
    UploadReq(1, "file", <<1>>, GetMD5Hash(<<1>>), NoURL, "b", "", <<"x">>, <<>>),
    UploadReq(1, "file", <<1>>, GetMD5Hash(<<1>>), NoURL, "ab", "", <<>>, <<"g">>) }

\* Listings of the default namespace with every filter, listings of each
\* namespace (an unknown one too) by its owner and by another user, and one
\* listing with the namespaces loaded.
ListRequests ==
  { ListReq(1, "", n, tg, gr, v) :
      n \in {"", "a", "b"}, tg \in {<<>>, <<"x">>, <<"y">>, <<"x", "y">>},
      gr \in {<<>>, <<"g">>}, v \in {0, 2} }
  \cup { ListReq(u, ns, "", <<"x">>, <<>>, 2) : u \in {1, 2}, ns \in {"", "n2", "zz"} }
  \cup { ListReq(1, "", "", <<>>, <<>>, 3) }

NextList ==
  \/ \E r \in ListUploads : UploadBegin("w1", r)
  \/ FileUploadStep("w1")
  \/ \E r \in ListRequests : ListReceive("w1", r)
  \/ ListStep("w1")

SpecList == InitUpload /\ [][NextList]_vars

\* ------------------------------------------------------------ update spec
\* A store two uploads of user 1 into the default namespace leave: two files
\* named "a", the first with tag "x", the second in group "g".
SeedRow(n, l, tg, gr) ==
  [name |-> n, localName |-> l, uploader |-> 1, ns |-> 1, size |-> 1,
   isPublic |-> FALSE, slug |-> NullSlug, tags |-> tg, groups |-> gr, deleted |-> FALSE]

InitUpdate ==
  /\ files = << SeedRow("a", 1, {1}, {}), SeedRow("a", 2, {}, {1}) >>
  /\ tagRows = << [name |-> "x", ns |-> 1] >>
  /\ groupRows = << [name |-> "g", ns |-> 1] >>
  /\ blobs = [l \in LocalNames |-> IF l <= 2 THEN 1 ELSE NoBlob]
  /\ InitWorkers

NumPresent(r) == Cardinality({k \in DOMAIN SubOrder : Present(r, k)})

\* The update and delete requests of user 1: by name and id with at most
\* MaxSubActions sub-actions, by name alone with at most one, one with an
\* unknown action, two that name a new namespace, and one that adds a tag twice.
UpdateTargets == {<<"a", 0>>, <<"a", 1>>, <<"b", 0>>}
UpdateRequests ==
  { r \in { UpdateReq(1, t[1], t[2], "", "update", nn, ip, at, rt, ag, rg) :
              t \in UpdateTargets,
              nn \in {"", "b"}, ip \in {"", "true", "x"},
              at \in {<<>>, <<"x">>, <<"y">>}, rt \in {<<>>, <<"x">>},
              ag \in {<<>>, <<"g">>}, rg \in {<<>>, <<"g">>} } :
      NumPresent(r) <= (IF r.fileID = 0 THEN 1 ELSE MaxSubActions) }
  \cup { UpdateReq(1, t[1], t[2], "", "delete", "", "", <<>>, <<>>, <<>>, <<>>) :
           t \in UpdateTargets }
  \cup { UpdateReq(1, "a", 1, "", "remove", "", "", <<>>, <<>>, <<>>, <<>>) }
  \cup { WithNamespace(UpdateReq(1, "a", 1, "", "update", "", "", at, <<>>, <<>>, <<>>), "n2") :
           at \in {<<>>, <<"y">>} }
  \cup { UpdateReq(1, "a", 1, "", "update", "", "", <<"x", "x">>, <<>>, <<>>, <<>>) }

NextUpdate ==
  \/ \E r \in UpdateRequests : UpdateReceive("w1", r)
  \/ UpdateStep("w1")

SpecUpdate == InitUpdate /\ [][NextUpdate]_vars

\* ----------------------------------------------------------- publish spec
\* A store two uploads of user 1 leave: files "a" and "b", both private.
InitPublish ==
  /\ files = << SeedRow("a", 1, {}, {}), SeedRow("b", 2, {}, {}) >>
  /\ tagRows = <<>>
  /\ groupRows = <<>>
  /\ blobs = [l \in LocalNames |-> IF l <= 2 THEN 1 ELSE NoBlob]
  /\ InitWorkers

\* Publish either file under a given or a drawn name; set file "a" public or
\* private; delete either file (file "a" only while files are published).
PublishRequests ==
  { PublishReq(1, s) : s \in Slugs } \cup { PublishReq(2, 1), PublishReq(2, NullSlug) }
VisibilityRequests ==
  { UpdateReq(1, "a", 0, "", "update", "", ip, <<>>, <<>>, <<>>, <<>>) : ip \in {"true", "false"} }
  \cup { UpdateReq(1, n, 0, "", "delete", "", "", <<>>, <<>>, <<>>, <<>>) : n \in {"a", "b"} }

NextPublish ==
  \E w \in Workers :
    \/ \E r \in PublishRequests : PublishReceive(w, r)
    \/ PublishBegin(w)
    \/ PublishCheck(w)
    \/ PublishSave(w)
    \/ \E r \in {v \in VisibilityRequests : v.name = "a"} : UpdateReceive(w, r)
    \/ UpdateBegin(w)
    \/ UpdateFind(w)
    \/ FindFilePreloadNamespace(w)
    \/ FindFilePreloadTags(w)
    \/ FindFilePreloadGroups(w)
    \/ SetVilibility(w)
    \/ DeleteSave(w)
    \/ DeleteBlob(w)
    \/ DeleteRow(w)

SpecPublish == InitPublish /\ [][NextPublish]_vars

\* ------------------------------------------------------------------ delete spec
\* File "a" was published under name 1 by an earlier request; file "b" is private.
InitDelete ==
  /\ files = << [SeedRow("a", 1, {}, {}) EXCEPT !.isPublic = TRUE, !.slug = 1],
                SeedRow("b", 2, {}, {}) >>
  /\ tagRows = <<>>
  /\ groupRows = <<>>
  /\ blobs = [l \in LocalNames |-> IF l <= 2 THEN 1 ELSE NoBlob]
  /\ InitWorkers

\* Publish file "b" under a given or a drawn name.
RepublishRequests == { PublishReq(2, s) : s \in Slugs \cup {NullSlug} }

\* Set file "a" public or private and delete either file, by name and by name
\* and id.
DeleteRequests ==
  VisibilityRequests
  \cup { UpdateReq(1, "a", 1, "", "update", "", "true", <<>>, <<>>, <<>>, <<>>),
         UpdateReq(1, "a", 1, "", "delete", "", "", <<>>, <<>>, <<>>, <<>>),
         UpdateReq(1, "b", 2, "", "delete", "", "", <<>>, <<>>, <<>>, <<>>) }

\* One request at a time: deletes and visibility changes, and publishes of "b".
NextDelete ==
  \/ \E r \in RepublishRequests : PublishReceive("w1", r)
  \/ PublishBegin("w1")
  \/ PublishCheck("w1")
  \/ PublishSave("w1")
  \/ \E r \in DeleteRequests : UpdateReceive("w1", r)
  \/ UpdateBegin("w1")
  \/ UpdateFind("w1")
  \/ FindFilePreloadNamespace("w1")
  \/ FindFilePreloadTags("w1")
  \/ FindFilePreloadGroups("w1")
  \/ SetVilibility("w1")
  \/ DeleteSave("w1")
  \/ DeleteBlob("w1")
  \/ DeleteRow("w1")

SpecDelete == InitDelete /\ [][NextDelete]_vars

\* ------------------------------------------------------- File.UpdateNamespace
\* No handler calls File.UpdateNamespace (the branch at FileHandler.go:351-354
\* is empty); the request loads the live file with the given id and hands it,
\* with the namespace found by name, to UpdateNamespace.
MigrateReq(u, id, ns) == [kind |-> "migrate", user |-> u, fileID |-> id, ns |-> ns]

MigrateReceive(w, r) ==
  /\ Receive(w, r, "nsload")
  /\ UNCHANGED store

\* Lines 316-317: the namespace is set on the in-memory file.
MigrateBegin(w) ==
  /\ pc[w] = "nsload"
  /\ IF Live(req[w].fileID) /\ FindNamespace(req[w].ns) # 0
     THEN Step(w, "nstags", [NoMem EXCEPT !.file = [LoadFile(req[w].fileID) EXCEPT
                                                      !.ns = FindNamespace(req[w].ns)]])
     ELSE Answer(w, ErrRes("not found", 404), NoMem)
  /\ UNCHANGED store

\* Lines 320-330, one database statement at a time: GetTag in the new namespace
\* for the next held tag; the loop being through, the join rows of the file are
\* deleted (Association.Clear, a statement of its own whose error is dropped)
\* and the new tags are set on the in-memory file.
UpdateNamespaceTags(w) ==
  /\ pc[w] = "nstags"
  /\ LET held == mem[w].file.tags IN
     IF Len(held) = 0
     THEN /\ UNCHANGED <<files, tagRows>>
          /\ Step(w, "nsgroups", mem[w])
     ELSE IF mem[w].i < Len(held)
     THEN LET g == GetTag(tagRows, tagRows[held[mem[w].i + 1]].name, mem[w].file.ns) IN
          /\ tagRows' = g[1]
          /\ Step(w, "nstags", [mem[w] EXCEPT !.newRows = Append(@, g[2]), !.i = @ + 1])
          /\ UNCHANGED files
     ELSE /\ \/ files' = [files EXCEPT ![mem[w].file.id].tags = {}]
             \/ UNCHANGED files
          /\ Step(w, "nsgroups", [Returned(mem[w]) EXCEPT !.file.tags = mem[w].newRows])
          /\ UNCHANGED tagRows
  /\ UNCHANGED <<groupRows, blobs>>

\* Lines 333-343: the same for the groups.
UpdateNamespaceGroups(w) ==
  /\ pc[w] = "nsgroups"
  /\ LET held == mem[w].file.groups IN
     IF Len(held) = 0
     THEN /\ UNCHANGED <<files, groupRows>>
          /\ Step(w, "nssave", mem[w])
     ELSE IF mem[w].i < Len(held)
     THEN LET g == GetTag(groupRows, groupRows[held[mem[w].i + 1]].name, mem[w].file.ns) IN
          /\ groupRows' = g[1]
          /\ Step(w, "nsgroups", [mem[w] EXCEPT !.newRows = Append(@, g[2]), !.i = @ + 1])
          /\ UNCHANGED files
     ELSE /\ \/ files' = [files EXCEPT ![mem[w].file.id].groups = {}]
             \/ UNCHANGED files
          /\ Step(w, "nssave", [Returned(mem[w]) EXCEPT !.file.groups = mem[w].newRows])
          /\ UNCHANGED groupRows
  /\ UNCHANGED <<tagRows, blobs>>

\* Line 346: the file is saved.
UpdateNamespaceSave(w) ==
  /\ pc[w] = "nssave"
  /\ \E sr \in SaveResults(files, mem[w].file) :
       /\ files' = sr[1]
       /\ IF sr[2] THEN Answer(w, ServerError, [mem[w] EXCEPT !.stage = "nssave"])
          ELSE Answer(w, OkRes("success", 0), [mem[w] EXCEPT !.stage = "ok"])
  /\ UNCHANGED <<tagRows, groupRows, blobs>>

\* Two files of the default namespace: "a" with tag x and group g, "b" with
\* tag x.
InitMigrate ==
  /\ files = << SeedRow("a", 1, {1}, {1}), SeedRow("b", 2, {1}, {}) >>
  /\ tagRows = << [name |-> "x", ns |-> 1] >>
  /\ groupRows = << [name |-> "g", ns |-> 1] >>
  /\ blobs = [l \in LocalNames |-> IF l <= 2 THEN 1 ELSE NoBlob]
  /\ InitWorkers

\* Either file into either namespace, and into an unknown one.
MigrateRequests ==
  { MigrateReq(1, id, ns) : id \in {1, 2}, ns \in {"", "n2", "zz"} }

\* One request at a time.
NextMigrate ==
  \/ \E r \in MigrateRequests : MigrateReceive("w1", r)
  \/ MigrateBegin("w1")
  \/ UpdateNamespaceTags("w1")
  \/ UpdateNamespaceGroups("w1")
  \/ UpdateNamespaceSave("w1")

SpecMigrate == InitMigrate /\ [][NextMigrate]_vars

\* ------------------------------------------------------------------ count spec
\* The default namespace holds a file "a" of user 1 and a file "a" of user 2
\* (who may write foreign namespaces).
InitCount ==
  /\ files = << SeedRow("a", 1, {}, {}),
                [SeedRow("a", 2, {}, {}) EXCEPT !.uploader = 2] >>
  /\ tagRows = <<>>
  /\ groupRows = <<>>
  /\ blobs = [l \in LocalNames |-> IF l <= 2 THEN 1 ELSE NoBlob]
  /\ InitWorkers

\* Either user addresses a file by name, or by name and id, to rename or to
\* delete it.
CountRequests ==
  { UpdateReq(u, n, id, "", act, nn, "", <<>>, <<>>, <<>>, <<>>) :
      u \in {1, 2}, n \in {"a", "b"}, id \in {0, 1, 2},
      act \in {"update"}, nn \in {"a", "b"} }
  \cup { UpdateReq(u, n, 0, "", "delete", "", "", <<>>, <<>>, <<>>, <<>>) :
           u \in {1, 2}, n \in {"a", "b"} }

\* One request at a time.
NextCount ==
  \/ \E r \in CountRequests : UpdateReceive("w1", r)
  \/ UpdateBegin("w1")
  \/ UpdateFind("w1")
  \/ FindFilePreloadNamespace("w1")
  \/ FindFilePreloadTags("w1")
  \/ FindFilePreloadGroups("w1")
  \/ Rename("w1")
  \/ DeleteSave("w1")
  \/ DeleteBlob("w1")
  \/ DeleteRow("w1")

SpecCount == InitCount /\ [][NextCount]_vars

\* -------------------------------------------------------------- two updates spec
\* One private file "a".
InitLost ==
  /\ files = << SeedRow("a", 1, {}, {}) >>
  /\ tagRows = <<>>
  /\ groupRows = <<>>
  /\ blobs = [l \in LocalNames |-> IF l = 1 THEN 1 ELSE NoBlob]
  /\ InitWorkers

\* Rename the file to "b" and set it public, addressed by id and by either
\* name: no request undoes the change of another.
LostRequests ==
  { UpdateReq(1, n, 1, "", "update", "b", "", <<>>, <<>>, <<>>, <<>>) : n \in {"a", "b"} }
  \cup { UpdateReq(1, n, 1, "", "update", "", "true", <<>>, <<>>, <<>>, <<>>) :
           n \in {"a", "b"} }

\* Two requests at a time.
NextLost ==
  \E w \in Workers :
    \/ \E r \in LostRequests : UpdateReceive(w, r)
    \/ UpdateBegin(w)
    \/ UpdateFind(w)
    \/ FindFilePreloadNamespace(w)
    \/ FindFilePreloadTags(w)
    \/ FindFilePreloadGroups(w)
    \/ Rename(w)
    \/ SetVilibility(w)

SpecLost == InitLost /\ [][NextLost]_vars

\* ----------------------------------------------------------------- RouteHandler
\* A request to a route: the user its bearer token resolves to (0: no valid
\* session) and whether the route is a sessionRequest route.
RouteReq(t, s) == [kind |-> "route", token |-> t, session |-> s]
RouteRequests == { RouteReq(t, s) : t \in {0} \cup Users, s \in BOOLEAN }

\* Router.go:177-184: the closure starts for a request.
RouteReceive(w, r) ==
  /\ Receive(w, r, "validate")
  /\ UNCHANGED store

\* requestType.validate (Router.go:201-222): a session route resolves the
\* token and stores the user in the shared handlerData; other routes store
\* nothing.  Lines 207 and 213 hand 401 to sendResponse as the payload: the
\* answer to an invalid token goes out as 200.
validate(w) ==
  /\ pc[w] = "validate"
  /\ IF ~req[w].session THEN Step(w, "inner", mem[w])
     ELSE IF req[w].token = 0 THEN Answer(w, ErrRes("Invalid token", 200), NoMem)
     ELSE /\ handlerData' = [handlerData EXCEPT !.user = req[w].token]
          /\ pc' = [pc EXCEPT ![w] = "inner"]
          /\ UNCHANGED <<req, mem, res>>
  /\ UNCHANGED store

\* Router.go:192: inner(*handlerData, w, r): the handler function is called
\* with a copy of the shared handlerData as it is at the call.
RouteHandler(w) ==
  /\ pc[w] = "inner"
  /\ Answer(w, OkRes("", 0), [mem[w] EXCEPT !.user = handlerData.user])
  /\ UNCHANGED store

\* The state after NewRouter: no user stored.
InitRouter == InitUpload

\* Two requests at a time.
NextRouter ==
  \E w \in Workers :
    \/ \E r \in RouteRequests : RouteReceive(w, r)
    \/ validate(w)
    \/ RouteHandler(w)

SpecRouter == InitRouter /\ [][NextRouter]_vars

\* ---------------------------------------------------------- PrevievFileHandler
\* GetPublicFile (part_000:298-311) as the handler uses it: the row First()
\* returns, the live row with the public name that has the smallest id; 0: no
\* such row (found = false).
PublicFileId(s) ==
  LET hits == {id \in FileIds : Live(id) /\ files[id].slug = s}
  IN IF hits = {} THEN 0 ELSE CHOOSE id \in hits : \A j \in hits : id <= j

\* http.NotFound and http.Error(w, "Server error", 500); a streamed file is a
\* 200 without a JSON body.
NotFound == ErrRes("404 page not found", 404)
PreviewError == ErrRes("Server error", 500)
Streamed == [ok |-> TRUE, msg |-> "", code |-> 200, fileID |-> 0]

\* GET /preview/{fileID}: the path variable never is empty.
PreviewReq(s) == [kind |-> "preview", slug |-> s]

PreviewReceive(w, r) ==
  /\ Receive(w, r, "prevfind")
  /\ UNCHANGED store

\* The handler serving any row that holds the public name, public or not.
PrevievFileHandlerAnyVisibility(w) ==
  /\ pc[w] = "prevfind"
  /\ LET id == PublicFileId(req[w].slug)
         m == [NoMem EXCEPT !.slug = req[w].slug] IN
     IF id = 0
     THEN Answer(w, NotFound, [m EXCEPT !.stage = "notfound"])
     ELSE Step(w, "prevopen", [m EXCEPT !.file = LoadRow(id)])
  /\ UNCHANGED store

\* PrevievFileHandler, lines 14-34: look the public name up; no row, or a row
\* that is not public, is answered with 404.
PrevievFileHandler(w) ==
  /\ pc[w] = "prevfind"
  /\ LET id == PublicFileId(req[w].slug)
         m == [NoMem EXCEPT !.slug = req[w].slug] IN
     IF id = 0
     THEN Answer(w, NotFound, [m EXCEPT !.stage = "notfound"])
     ELSE IF ~files[id].isPublic
     THEN Answer(w, NotFound, [m EXCEPT !.file.id = id, !.stage = "private"])
     ELSE Step(w, "prevopen", [m EXCEPT !.file = LoadRow(id)])
  /\ UNCHANGED store

\* The size of the buffer of the copy (config.Webserver.DownloadFileBuffer).
DownloadFileBuffer == 1

\* PrevievFileHandler, lines 41-46: open the blob under the local name of the
\* row that was loaded.
PreviewOpen(w) ==
  /\ pc[w] = "prevopen"
  /\ IF blobs[mem[w].file.localName] = NoBlob
     THEN Answer(w, PreviewError, [mem[w] EXCEPT !.stage = "open"])
     ELSE Step(w, "prevcopy", [mem[w] EXCEPT !.sent = 0])
  /\ UNCHANGED store

\* Lines 48-57 with BufferedCopy (part_001:186-207), one pass of its loop at a
\* time: a Read at the descriptor's offset returns the bytes the file has
\* there, a buffer at most, and they are written to the response; a Read at or
\* behind the end of the file ends the copy, the file is closed and the
\* handler returns.  Once open, the file is read whatever happens to its
\* directory entry; it is read as it is at each Read.
PreviewCopy(w) ==
  /\ pc[w] = "prevcopy"
  /\ LET left == FileSize(w) - mem[w].sent IN
     IF left > 0
     THEN Step(w, "prevcopy",
               [mem[w] EXCEPT !.sent = @ + (IF left > DownloadFileBuffer
                                            THEN DownloadFileBuffer ELSE left)])
     ELSE Answer(w, Streamed, [mem[w] EXCEPT !.stage = "ok", !.ino = {}, !.isize = 0])
  /\ UNCHANGED store

\* ----------------------------------------------------------------- preview spec
\* File "a", of two bytes, is public under name 1, file "b" is private.
InitPreview ==
  /\ files = << [SeedRow("a", 1, {}, {}) EXCEPT !.isPublic = TRUE, !.slug = 1, !.size = 2],
                SeedRow("b", 2, {}, {}) >>
  /\ tagRows = <<>>
  /\ groupRows = <<>>
  /\ blobs = [l \in LocalNames |-> IF l = 1 THEN 2 ELSE IF l = 2 THEN 1 ELSE NoBlob]
  /\ InitWorkers

\* Fetch either public name; set file "a" private or public; delete it; publish
\* file "b" under the name of "a".
PreviewRequests == { PreviewReq(s) : s \in Slugs }
PreviewChanges ==
  { UpdateReq(1, "a", 0, "", "update", "", ip, <<>>, <<>>, <<>>, <<>>) : ip \in {"true", "false"} }
  \cup { UpdateReq(1, "a", 0, "", "delete", "", "", <<>>, <<>>, <<>>, <<>>) }

\* Two requests at a time.
NextPreview ==
  \E w \in Workers :
    \/ \E r \in PreviewRequests : PreviewReceive(w, r)
    \/ PrevievFileHandler(w)
    \/ PreviewOpen(w)
    \/ PreviewCopy(w)
    \/ \E r \in PreviewChanges : UpdateReceive(w, r)
    \/ UpdateBegin(w)
    \/ UpdateFind(w)
    \/ FindFilePreloadNamespace(w)
    \/ FindFilePreloadTags(w)
    \/ FindFilePreloadGroups(w)
    \/ SetVilibility(w)
    \/ DeleteSave(w)
    \/ DeleteBlob(w)
    \/ DeleteRow(w)
    \/ PublishReceive(w, PublishReq(2, 1))
    \/ PublishBegin(w)
    \/ PublishCheck(w)
    \/ PublishSave(w)

SpecPreview == InitPreview /\ [][NextPreview]_vars

\* ===================================================================== claims
IsUpload(w) == req[w].kind = "upload"
Mismatched(w) ==
  IsUpload(w) /\ req[w].uploadType = "file" /\ GetMD5Hash(req[w].data) # req[w].sum
HoldsLocalName(l) == \E id \in FileIds : Live(id) /\ files[id].localName = l

\* C1: an upload whose blob was written and whose File.Insert then failed has
\* removed the blob when it answers: no blob is left without a File row.
\* (Stated as the claim has it; the handler does not remove the blob.)
C1_FailedInsertRemovesBlob ==
  \A w \in Workers :
    (IsUpload(w) /\ pc[w] = "done" /\ mem[w].stage = "insert")
      => (blobs[mem[w].file.localName] = NoBlob \/ HoldsLocalName(mem[w].file.localName))

\* C2: a raw upload whose checksum differs from the digest of its content fails
\* in its first step: no storage id was allocated for it, no blob and no row
\* were created for it, and it never reaches the allocation loop.
C2_MismatchStoresNothing ==
  \A w \in Workers :
    Mismatched(w)
      => /\ pc[w] = "done"
         /\ ~res[w].ok
         /\ res[w].fileID = 0
         /\ mem[w].tries = 0
         /\ mem[w].file.localName = 0
         /\ ~mem[w].blob
         /\ mem[w].file.id = 0

\* C2 witness: a permitted user's upload with a wrong checksum was refused while
\* the store already holds a file.
C2_Witness ==
  \E w \in Workers :
    /\ Mismatched(w) /\ CanUploadFiles(req[w].user)
    /\ pc[w] = "done" /\ res[w].code = 422
    /\ Len(files) > 0

\* C3: a URL upload whose fetch failed on a non-2xx status or on a declared
\* length above the ceiling answers with an error and leaves no row and no blob,
\* not even an empty one, under its local name.
\* (Stated as the claim has it; os.Create ran before the fetch.)
C3_FailedFetchLeavesNothing ==
  \A w \in Workers :
    (IsUpload(w) /\ pc[w] = "done" /\ mem[w].stage = "fetch"
       /\ res[w].msg \in {"Non ok response: 404", "File too large"})
      => /\ ~res[w].ok
         /\ mem[w].file.id = 0
         /\ (blobs[mem[w].file.localName] = NoBlob \/ HoldsLocalName(mem[w].file.localName))

\* C4: the allocation loop makes at most 5 existence checks; it gives up, with
\* a server error and nothing created, exactly at the 5th colliding draw, goes
\* on after an earlier colliding draw, and stops at the first draw that no live
\* row holds, which becomes the upload's local name.
C4_AllocationBounded ==
  [][\A w \in Workers :
       pc[w] = "alloc" =>
         /\ mem[w].tries < MaxAllocAttempts
         /\ pc'[w] \in {"alloc", "create", "done"}
         /\ mem'[w].tries = mem[w].tries + 1
         /\ pc'[w] = "create" =>
              /\ mem'[w].file.localName \in LocalNames
              /\ CountLocalName(mem'[w].file.localName) = 0
         /\ pc'[w] = "alloc" => mem'[w].tries < MaxAllocAttempts
         /\ pc'[w] = "done" =>
              /\ mem'[w].tries = MaxAllocAttempts
              /\ res'[w] = ServerError
              /\ store' = store
              /\ ~mem'[w].blob /\ mem'[w].file.id = 0 /\ mem'[w].file.localName = 0
    ]_vars

\* C4 witness: an upload gave up after 5 colliding draws.
C4_Witness ==
  \E w \in Workers :
    /\ IsUpload(w) /\ pc[w] = "done" /\ mem[w].stage = "alloc"
    /\ mem[w].tries = MaxAllocAttempts

\* C5: no two live File rows share a local storage name.
\* (Stated as the claim has it; LocalName carries no unique constraint.)
C5_UniqueLocalName ==
  \A i, j \in FileIds :
    (i # j /\ Live(i) /\ Live(j)) => files[i].localName # files[j].localName

\* C6: after any interleaving of publish, set-visibility and delete operations
\* no two live File rows hold the same non-null public name.
C6_UniqueSlug ==
  \A i, j \in FileIds :
    (i # j /\ Live(i) /\ Live(j) /\ files[i].slug # NullSlug)
      => files[i].slug # files[j].slug

\* C6 witness: a publish that found its public name free was refused at its
\* Save, another live file having taken the name in between.
C6_Witness ==
  \E w \in Workers :
    /\ pc[w] = "done" /\ mem[w].stage = "pubsave"
    /\ Live(mem[w].file.id) /\ files[mem[w].file.id].slug # mem[w].slug
    /\ \E b \in FileIds : b # mem[w].file.id /\ Live(b) /\ files[b].slug = mem[w].slug

\* A live file other than the one worker w publishes holds public name s.
BoundToOther(w, s) ==
  \E b \in FileIds : b # mem[w].file.id /\ Live(b) /\ files[b].slug = s

\* C7: a publish of file A under a public name that a different live file B
\* holds reports a conflict and writes nothing: the stored isPublic and public
\* name of A are what they were, and B keeps the name.
C7_ConflictLeavesRows ==
  [][\A w \in Workers :
       (pc[w] = "pubcheck" /\ pc'[w] # "pubcheck" /\ BoundToOther(w, mem'[w].slug))
         => /\ pc'[w] = "done"
            /\ mem'[w].stage = "conflict"
            /\ res'[w] = ErrRes("conflict", 409)
            /\ files' = files
    ]_vars

\* C7 witness: a publish was answered with a conflict, the name being held by
\* a different live file and the published file still being without it.
C7_Witness ==
  \E w \in Workers :
    /\ pc[w] = "done" /\ mem[w].stage = "conflict" /\ res[w].code = 409
    /\ BoundToOther(w, mem[w].slug)
    /\ Live(mem[w].file.id)
    /\ files[mem[w].file.id].slug = NullSlug /\ ~files[mem[w].file.id].isPublic

\* The live files of the requesting user with the requested name in the
\* requested namespace.
SameNameFiles(w) ==
  {id \in FileIds : /\ Live(id)
                    /\ files[id].name = req[w].name
                    /\ files[id].ns = FindNamespace(req[w].ns)
                    /\ files[id].uploader = req[w].user}

\* The count statement of worker w's request fails in this step: the request is
\* answered with the server error.
CountFailed(w) ==
  pc[w] = "count" /\ pc'[w] = "done" /\ res'[w] = ServerError /\ mem'[w].stage = "count"

\* C8: an update or delete request that names, without an id, a name two or
\* more live files of its user share in the namespace is answered with
\* "multiple files with same name" (with the server error when the count
\* statement itself fails), and no row, join row or blob is changed.
C8_AmbiguousNameConflict ==
  [][\A w \in Workers :
       (/\ pc[w] = "count" /\ pc'[w] # "count"
        /\ req[w].fileID = 0 /\ req[w].action \in {"update", "delete"}
        /\ FindNamespace(req[w].ns) # 0
        /\ (IsOwnedBy(FindNamespace(req[w].ns), req[w].user)
              \/ CanWriteForeignNamespace(req[w].user))
        /\ Cardinality(SameNameFiles(w)) >= 2)
         => /\ pc'[w] = "done"
            /\ res'[w] = ErrRes("multiple files with same name", 200) \/ CountFailed(w)
            /\ store' = store
    ]_vars

\* C8 witness: a request was answered with the conflict while two live files
\* of one user share a name in a namespace.
C8_Witness ==
  /\ \E w \in Workers :
       pc[w] = "done" /\ res[w] = ErrRes("multiple files with same name", 200)
  /\ \E i, j \in FileIds :
       /\ i # j /\ Live(i) /\ Live(j)
       /\ files[i].name = files[j].name /\ files[i].ns = files[j].ns
       /\ files[i].uploader = files[j].uploader

\* C9: an update request of which a sub-action changed the stored file reports
\* success, whatever its later sub-actions did.
\* (Stated as the claim has it; the tag and group sub-actions assign didUpdate.)
C9_ChangeReportsSuccess ==
  \A w \in Workers :
    (pc[w] = "done" /\ mem[w].stage = "ok" /\ mem[w].applied # <<>> /\ mem[w].changed)
      => res[w].ok

\* The positions of the handler inside sub-action a: the sub-action itself and
\* the Save after the Clear of a removal.
SubPcs(a) == {a, a \o "save"}

\* The row worker w works on holds a tag / group named n after the step.
HoldsTagAfter(w, n) ==
  \E t \in files'[mem[w].file.id].tags : tagRows'[t].name = n
HoldsGroupAfter(w, n) ==
  \E g \in files'[mem[w].file.id].groups : groupRows'[g].name = n

\* After the step the stored row still shows what the sub-actions worker w has
\* applied did, save what the current sub-action is asked to take away.
EarlierKept(w) ==
  LET done == SeqToSet(mem[w].applied)
      row == files'[mem[w].file.id] IN
  /\ "rename" \in done => row.name = req[w].newName
  /\ "setvis" \in done => row.isPublic = ParseBool(req[w].isPublic)[1]
  /\ "addtags" \in done =>
       \A n \in SeqToSet(req[w].addTags) \ SeqToSet(req[w].rmTags) : HoldsTagAfter(w, n)
  /\ "addgroups" \in done =>
       \A n \in SeqToSet(req[w].addGroups) \ SeqToSet(req[w].rmGroups) : HoldsGroupAfter(w, n)

\* C10: when a sub-action of an update fails the request is answered with that
\* failure at once, no later sub-action is applied, and what the earlier
\* sub-actions stored remains.
\* (Stated as the claim has it; a removal clears the join rows before its Save.)
C10_FailureKeepsEarlier ==
  [][\A w \in Workers :
       (\E a \in SeqToSet(SubOrder) :
          pc[w] \in SubPcs(a) /\ pc'[w] = "done" /\ mem'[w].stage = a)
         => /\ ~res'[w].ok
            /\ mem'[w].applied = mem[w].applied
            /\ EarlierKept(w)
    ]_vars

\* The step by which worker w's update request is answered as gone through.
FinishesUpdate(w) ==
  /\ req[w].kind = "update" /\ req[w].action = "update"
  /\ pc[w] # "done" /\ pc'[w] = "done" /\ mem'[w].stage = "ok"

IndexOf(a) == CHOOSE k \in DOMAIN SubOrder : SubOrder[k] = a

\* The row the answered request worked on holds a tag / group named n of
\* namespace ns after the step.
HoldsTagOf(w, n, ns) ==
  \E t \in files'[mem'[w].file.id].tags : tagRows'[t].name = n /\ tagRows'[t].ns = ns
HoldsGroupOf(w, n, ns) ==
  \E g \in files'[mem'[w].file.id].groups : groupRows'[g].name = n /\ groupRows'[g].ns = ns

\* C11: the sub-actions of an update are applied in the order rename, set
\* visibility, namespace migration, add tags, remove tags, add groups, remove
\* groups: the ones present are applied in that order, a tag both added and
\* removed is not held afterwards, and what is added by a request that names a
\* new namespace is a tag / group of that namespace.
\* (Stated as the claim has it; the branch for a new namespace is empty.)
C11_FixedOrder ==
  [][\A w \in Workers :
       FinishesUpdate(w) =>
         LET r == req[w]
             did == mem'[w].applied
             dest == FindNamespace(r.newNs) IN
         /\ SeqToSet(did) = {SubOrder[k] : k \in {j \in DOMAIN SubOrder : Present(r, j)}}
         /\ \A i, j \in DOMAIN did : i < j => IndexOf(did[i]) < IndexOf(did[j])
         /\ \A n \in SeqToSet(r.addTags) \cap SeqToSet(r.rmTags) :
              \A ns \in NsIds : ~HoldsTagOf(w, n, ns)
         /\ (r.newNs # "" /\ dest # 0) =>
              /\ \A n \in SeqToSet(r.addTags) \ SeqToSet(r.rmTags) : HoldsTagOf(w, n, dest)
              /\ \A n \in SeqToSet(r.addGroups) \ SeqToSet(r.rmGroups) : HoldsGroupOf(w, n, dest)
    ]_vars

\* C12: an update request that names a new namespace migrates the file: the
\* row's namespace is the new one afterwards, every tag and group name it held
\* is held as a row of the new namespace, and no tag or group of another
\* namespace is left on it.
\* (Stated as the claim has it; the handler never calls File.UpdateNamespace.)
C12_NamespaceMigrates ==
  [][\A w \in Workers :
       (FinishesUpdate(w) /\ req[w].newNs # "" /\ FindNamespace(req[w].newNs) # 0) =>
         LET id == mem'[w].file.id
             dest == FindNamespace(req[w].newNs) IN
         /\ files'[id].ns = dest
         /\ \A t \in files[id].tags : HoldsTagOf(w, tagRows[t].name, dest)
         /\ \A g \in files[id].groups : HoldsGroupOf(w, groupRows[g].name, dest)
         /\ \A t \in files'[id].tags : tagRows'[t].ns = dest
         /\ \A g \in files'[id].groups : groupRows'[g].ns = dest
    ]_vars

\* Worker w's step is sub-action a returning without an error.
Applies(w, a) ==
  pc[w] \in SubPcs(a) /\ mem'[w].applied = Append(mem[w].applied, a)

\* The names of the list that the stored row of worker w's file holds as tags /
\* groups before the step.
AttachedTags(w, names) ==
  {n \in SeqToSet(names) : \E t \in files[mem[w].file.id].tags : tagRows[t].name = n}
AttachedGroups(w, names) ==
  {n \in SeqToSet(names) : \E g \in files[mem[w].file.id].groups : groupRows[g].name = n}

\* C13: tag and group mutation is idempotent.  A removal that names an attached
\* tag / group goes on to delete the join rows and, returning without an error,
\* reports a change and leaves none of the names attached; one that names none
\* (as a second removal of the same names does) deletes nothing, reports no
\* change and leaves the associations as they are.  An addition of names that
\* are all attached, repeated or not, resolves no name, reports no change and
\* changes nothing.
\* (Stated as the claim has it; the error of Association.Clear is dropped.)
C13_Idempotent ==
  [][\A w \in Workers :
       LET id == mem[w].file.id IN
       /\ (pc[w] = "rmtags" /\ pc'[w] # "rmtags") =>
            IF AttachedTags(w, req[w].rmTags) = {}
            THEN /\ Applies(w, "rmtags")
                 /\ ~mem'[w].didUpdate /\ files'[id].tags = files[id].tags
            ELSE pc'[w] = "rmtagssave"
       /\ (pc[w] = "rmtagssave" /\ Applies(w, "rmtags")) =>
            /\ mem'[w].didUpdate
            /\ \A n \in SeqToSet(req[w].rmTags) : ~HoldsTagAfter(w, n)
       /\ (pc[w] = "rmgroups" /\ pc'[w] # "rmgroups") =>
            IF AttachedGroups(w, req[w].rmGroups) = {}
            THEN /\ pc'[w] # "rmgroupssave"
                 /\ Applies(w, "rmgroups") =>
                      (~mem'[w].didUpdate /\ files'[id].groups = files[id].groups)
            ELSE pc'[w] = "rmgroupssave"
       /\ (pc[w] = "rmgroupssave" /\ Applies(w, "rmgroups")) =>
            /\ mem'[w].didUpdate
            /\ \A n \in SeqToSet(req[w].rmGroups) : ~HoldsGroupAfter(w, n)
       /\ (pc[w] = "addtags" /\ mem[w].i = 0
             /\ AttachedTags(w, req[w].addTags) = SeqToSet(req[w].addTags)) =>
            /\ pc'[w] # "addtags" /\ tagRows' = tagRows
            /\ Applies(w, "addtags") =>
                 (~mem'[w].didUpdate /\ files'[id].tags = files[id].tags)
       /\ (pc[w] = "addgroups" /\ mem[w].i = 0
             /\ AttachedGroups(w, req[w].addGroups) = SeqToSet(req[w].addGroups)) =>
            /\ pc'[w] # "addgroups" /\ groupRows' = groupRows
            /\ Applies(w, "addgroups") =>
                 (~mem'[w].didUpdate /\ files'[id].groups = files[id].groups)
    ]_vars

\* C14: whatever uploads and tag / group additions have run, one after another
\* or interleaved, there is at most one Tag row and at most one Group row for
\* a name in a namespace, and an attachment of a name that has a row in the
\* namespace resolves to that row: when File.Insert has dealt with the name,
\* the file holds the row.
C14_OneRowPerName ==
  /\ [](/\ \A i, j \in DOMAIN tagRows :
            (tagRows[i].name = tagRows[j].name /\ tagRows[i].ns = tagRows[j].ns) => i = j
        /\ \A i, j \in DOMAIN groupRows :
            (groupRows[i].name = groupRows[j].name /\ groupRows[i].ns = groupRows[j].ns)
              => i = j)
  /\ [][\A w \in Workers :
         /\ (pc[w] = "mktag" /\ pc'[w] # "mktag") =>
              LET t == mem'[w].file.tags[Len(mem'[w].file.tags)] IN
                /\ t \in DOMAIN tagRows'
                /\ tagRows'[t].name = req[w].tags[Len(mem'[w].file.tags)]
                /\ tagRows'[t].ns = mem[w].file.ns
         /\ (pc[w] = "mkgroup" /\ pc'[w] # "mkgroup") =>
              LET g == mem'[w].file.groups[Len(mem'[w].file.groups)] IN
                /\ g \in DOMAIN groupRows'
                /\ groupRows'[g].name = req[w].groups[Len(mem'[w].file.groups)]
                /\ groupRows'[g].ns = mem[w].file.ns]_vars


\* The positions of a listing.
ListPcs == {"list", "listtags", "listgroups", "listfind", "listpretags", "listpregroups",
            "listprens"}

\* A listing is answered with success by worker w in this step.
ListAnswered(w) ==
  /\ pc[w] \in ListPcs
  /\ pc'[w] = "done"
  /\ res'[w].ok

\* The files a listing request must return: the live files of the namespace
\* whose name contains the pattern, that share a tag with the resolved tag
\* filter unless it is empty, and a group with the resolved group filter
\* unless it is empty.
Qualifies(r) ==
  LET ns == FindNamespace(r.ns)
      tagFilter == FindTags(r.tags, ns)
      groupFilter == FindGroups(r.groups, ns) IN
  {id \in FileIds :
     /\ Live(id)
     /\ files[id].ns = ns
     /\ Like(files[id].name, r.name)
     /\ (tagFilter = {} \/ files[id].tags \cap tagFilter # {})
     /\ (groupFilter = {} \/ files[id].groups \cap groupFilter # {})}

\* C15: a listing answered with success returns, once each, exactly the live
\* files of the namespace whose name contains the pattern and for which (the
\* resolved tag filter is empty or the file has one of its tags) and (the
\* resolved group filter is empty or the file has one of its groups).
C15_ListingFilter ==
  [][\A w \in Workers :
       ListAnswered(w) =>
         /\ {mem'[w].retFiles[i].id : i \in DOMAIN mem'[w].retFiles} = Qualifies(req[w])
         /\ Len(mem'[w].retFiles) = Cardinality(Qualifies(req[w]))]_vars

\* A listing returned a file that has one tag of a resolved filter of two and
\* left out another live file of the same namespace.
C15_Witness ==
  \E w \in Workers :
    /\ pc[w] = "done"
    /\ mem[w].stage = "ok"
    /\ \E i \in DOMAIN mem[w].retFiles : \E j \in FileIds :
         LET f == files[mem[w].retFiles[i].id] IN
         /\ Live(j)
         /\ files[j].ns = f.ns
         /\ \A k \in DOMAIN mem[w].retFiles : mem[w].retFiles[k].id # j
         /\ Cardinality(f.tags) = 1
         /\ \E t \in DOMAIN tagRows :
              t \notin f.tags /\ tagRows[t].ns = f.ns /\ t \notin files[j].tags


\* The names of the tags file id holds.
TagNamesOf(id) == {tagRows[t].name : t \in files[id].tags}

\* Worker w answers, in this step, a listing of a namespace its user may read
\* that is filtered by the one tag name n.
ListsByTag(w, n) ==
  /\ pc[w] \in ListPcs
  /\ pc'[w] = "done"
  /\ req[w].tags = <<n>>
  /\ req[w].groups = <<>>
  /\ req[w].name = ""
  /\ FindNamespace(req[w].ns) # 0
  /\ IsOwnedBy(FindNamespace(req[w].ns), req[w].user)

\* C16: an upload answered with success returns a file id above 0, and a
\* listing of the upload's namespace filtered by one of the file's tag names
\* is answered with success and holds exactly one entry for the file, with the
\* file's name and, when attributes are returned, all its tag names.
C16_UploadListRoundTrip ==
  [][\A w \in Workers :
       /\ (IsUpload(w) /\ pc'[w] = "done" /\ res'[w].ok => res'[w].fileID > 0)
       /\ \A id \in FileIds : \A n \in TagNamesOf(id) :
            (ListsByTag(w, n) /\ Live(id) /\ files[id].ns = FindNamespace(req[w].ns)) =>
              /\ res'[w].ok
              /\ Cardinality({i \in DOMAIN mem'[w].retFiles :
                                mem'[w].retFiles[i].id = id}) = 1
              /\ \A i \in DOMAIN mem'[w].retFiles :
                   mem'[w].retFiles[i].id = id =>
                     /\ mem'[w].retFiles[i].name = files[id].name
                     /\ (req[w].verbose > 1 =>
                           SeqToSet(mem'[w].retFiles[i].tags) = TagNamesOf(id))]_vars


\* Worker w's SetVilibility step to private returned without an error.
SetPrivate(w) ==
  /\ pc[w] = "setvis"
  /\ ParseBool(req[w].isPublic) = <<FALSE, TRUE>>
  /\ Len(mem'[w].applied) > Len(mem[w].applied)

\* C17: a file set to private has no public name in its stored row afterwards,
\* and a publish is answered with a conflict only when a live public file
\* holds the name: the name of a file set to private can be bound to another.
C17_PrivateFreesSlug ==
  [][\A w \in Workers :
       /\ SetPrivate(w) => files'[mem'[w].file.id].slug = NullSlug
       /\ (pc[w] = "pubcheck" /\ mem'[w].stage = "conflict") =>
            \E id \in FileIds :
              Live(id) /\ files[id].isPublic /\ files[id].slug = mem'[w].slug]_vars


\* C18: every live file row is public exactly when it holds a public name.
C18_PublicIffSlug ==
  \A id \in FileIds :
    Live(id) => (files[id].isPublic <=> files[id].slug # NullSlug)


\* A soft-deleted row is matched by no lookup: not by FindFile or GetCount
\* with its name or its id, and not by GetPublicFile.
Unmatched(id) ==
  /\ \A u \in Users : \A i \in {0, id} :
       FindFile(files[id].name, i, files[id].ns, u) # id
  /\ GetCount(files[id].name, files[id].ns, id) = 0
  /\ GetCount(files[id].name, files[id].ns, 0) =
       Cardinality({j \in FileIds \ {id} : /\ Live(j)
                                           /\ files[j].name = files[id].name
                                           /\ files[j].ns = files[id].ns})
  /\ files[id].slug = NullSlug
  /\ ~files[id].isPublic

\* The steps of File.Delete by worker w: the save leaves the row private and
\* without a public name, and no row with the former name; whether or not the
\* blob is removed the soft delete is the next step and the rows are as they
\* were; the soft delete marks the row and the request is answered with
\* success.
DeleteSteps(w) ==
  /\ (pc[w] = "delsave" /\ pc'[w] = "delblob") =>
       LET id == mem[w].file.id IN
       /\ ~files'[id].isPublic
       /\ files'[id].slug = NullSlug
       /\ files[id].slug # NullSlug =>
            \A j \in FileIds : files'[j].slug # files[id].slug
  /\ (pc[w] = "delblob" /\ pc'[w] # "delblob") =>
       (pc'[w] = "delrow" /\ files' = files)
  /\ (pc[w] = "delrow" /\ mem'[w].stage = "ok") =>
       (files'[mem[w].file.id].deleted /\ res'[w].ok)

\* C19: with one request at a time, File.Delete clears the public name and
\* the public flag and soft-deletes the row, also when the blob could not be
\* removed; a deleted row is matched by no lookup, and a publish that found no
\* live holder of its name can save: the name of a deleted file can be bound
\* to another file.
C19_DeleteFreesSlug ==
  /\ [](\A id \in FileIds : files[id].deleted => Unmatched(id))
  /\ [](\A w \in Workers :
          pc[w] = "pubsave" => \E sr \in SaveResults(files, mem[w].file) : ~sr[2])
  /\ [][\A w \in Workers : DeleteSteps(w)]_vars

\* File "a" is soft-deleted while its blob is still there, and file "b" is
\* live and public under the name "a" held.
C19_Witness ==
  /\ files[1].deleted
  /\ blobs[files[1].localName] # NoBlob
  /\ Live(2)
  /\ files[2].isPublic
  /\ files[2].slug = 1


\* C20: a delete request whose file was found is answered with success,
\* whatever File.Delete returned.
C20_DeleteReportsSuccess ==
  [][\A w \in Workers :
       (/\ req[w].kind = "update"
        /\ req[w].action = "delete"
        /\ pc[w] \in {"delsave", "delblob", "delrow"}
        /\ pc'[w] = "done") => res'[w].ok]_vars


\* C21: every tag row and every group row a live file holds belongs to the
\* namespace of the file.
C21_AttributesInNamespace ==
  \A id \in FileIds :
    Live(id) =>
      /\ \A t \in files[id].tags : tagRows[t].ns = files[id].ns
      /\ \A g \in files[id].groups : groupRows[g].ns = files[id].ns


\* The names of the groups file id holds.
GroupNamesOf(id) == {groupRows[g].name : g \in files[id].groups}

\* C22: with one request at a time, a file handed to File.UpdateNamespace is
\* afterwards, whether the call failed or not, in one namespace with all its
\* tags and groups: it holds a row for every name it held and every row it
\* holds belongs to its namespace.  (File "a" holds x and g, file "b" holds x.)
C22_MigrationAtomic ==
  (\A w \in Workers : pc[w] \in {"idle", "done"}) =>
      /\ TagNamesOf(1) = {"x"} /\ GroupNamesOf(1) = {"g"}
      /\ TagNamesOf(2) = {"x"} /\ GroupNamesOf(2) = {}
      /\ \A id \in FileIds :
           /\ Cardinality(files[id].tags) = Cardinality(TagNamesOf(id))
           /\ Cardinality(files[id].groups) = Cardinality(GroupNamesOf(id))
           /\ \A t \in files[id].tags : tagRows[t].ns = files[id].ns
           /\ \A g \in files[id].groups : groupRows[g].ns = files[id].ns


\* C23: the ids a listing answered with success returns are the ids the same
\* request returns at every other verbosity on the same store.
C23_VerbosityKeepsMatches ==
  [][\A w \in Workers :
       ListAnswered(w) =>
         \A v \in Verbosities :
           SeqToSet(ListKept([req[w] EXCEPT !.verbose = v], FindNamespace(req[w].ns)))
             = {mem'[w].retFiles[i].id : i \in DOMAIN mem'[w].retFiles}]_vars

\* A listing below verbosity 2 returned a file with tags and left out a live
\* file of the namespace that has no tag, although its name contains the
\* other's and it holds the other's groups: the tag filter left it out.
C23_Witness ==
  \E w \in Workers :
    /\ pc[w] = "done"
    /\ mem[w].stage = "ok"
    /\ Len(mem[w].retFiles) = 1
    /\ LET it == mem[w].retFiles[1] IN
       /\ it.tags = <<>>
       /\ files[it.id].tags # {}
       /\ \E j \in FileIds \ {it.id} :
            /\ Live(j) /\ files[j].ns = files[it.id].ns /\ files[j].tags = {}
            /\ Like(files[j].name, files[it.id].name)
            /\ files[it.id].groups \subseteq files[j].groups


\* C24: an update request that went through without any sub-action changing
\* the stored rows is answered "noting to do", not success.
C24_NoChangeReportsNoop ==
  [][\A w \in Workers :
       (FinishesUpdate(w) /\ ~mem'[w].changed) =>
         (~res'[w].ok /\ res'[w].msg = "noting to do")]_vars


\* The live files of the requesting user with the requested name in the
\* requested namespace (and with the id, when one is given): the files
\* FindFile selects from.
OwnCandidates(r) ==
  {id \in FileIds : /\ Live(id)
                    /\ files[id].name = r.name
                    /\ files[id].ns = FindNamespace(r.ns)
                    /\ files[id].uploader = r.user
                    /\ (r.fileID # 0 => id = r.fileID)}

\* Worker w's request passed the namespace, permission and action checks and
\* its candidates are counted in this step.
CountsCandidates(w) ==
  /\ pc[w] = "count"
  /\ pc'[w] # "count"
  /\ FindNamespace(req[w].ns) # 0
  /\ IsOwnedBy(FindNamespace(req[w].ns), req[w].user)
       \/ CanWriteForeignNamespace(req[w].user)
  /\ req[w].action \in {"delete", "update"}

\* C25: the count that decides between conflict and not found is the number
\* of the user's own candidates: unless the count statement fails, the request
\* is answered "multiple files with same name" only when the user has more
\* than one and gave no id, and "File not found" whenever the user has none.
C25_CountsOwnFiles ==
  [][\A w \in Workers :
       (CountsCandidates(w) /\ ~CountFailed(w)) =>
         /\ res'[w].msg = "multiple files with same name" =>
              (Cardinality(OwnCandidates(req[w])) > 1 /\ req[w].fileID = 0)
         /\ Cardinality(OwnCandidates(req[w])) = 0 =>
              (pc'[w] = "done" /\ res'[w].msg = "File not found")]_vars


\* C26: a publish is answered with a conflict only when a live file other
\* than the one being published holds the public name.
C26_OwnSlugNoConflict ==
  [][\A w \in Workers :
       (pc[w] = "pubcheck" /\ pc'[w] = "done" /\ mem'[w].stage = "conflict") =>
         \E id \in FileIds \ {mem[w].file.id} :
           Live(id) /\ files[id].slug = mem'[w].slug]_vars


\* C27: a URL upload by a user with a size ceiling whose upstream body is
\* longer than the ceiling is answered with an error and leaves no File row
\* for its storage id.
C27_OversizeFetchFails ==
  \A w \in Workers :
    (/\ IsUpload(w)
     /\ req[w].uploadType = "url"
     /\ HasUploadLimit(req[w].user)
     /\ mem[w].fetched > UserRole[req[w].user].maxURL
     /\ pc[w] = "done")
      => (~res[w].ok /\ ~HoldsLocalName(mem[w].file.localName))


\* The files, live or deleted, that a request addresses by name (and id) in
\* its namespace.
Addressed(r) ==
  {id \in FileIds : /\ files[id].name = r.name
                    /\ files[id].ns = FindNamespace(r.ns)
                    /\ files[id].uploader = r.user
                    /\ (r.fileID # 0 => id = r.fileID)}

\* C28: with one request at a time, no step changes the row of a soft-deleted
\* file, and an update or delete request that addresses deleted files only
\* (the files of its user with the name, and the id, in the namespace) is
\* answered "File not found" when its candidates are counted (with the server
\* error when the count statement itself fails) and goes no further.
C28_DeletedIsTerminal ==
  [][/\ \A id \in FileIds : files[id].deleted => files'[id] = files[id]
     /\ \A w \in Workers :
          (/\ CountsCandidates(w)
           /\ Addressed(req[w]) # {}
           /\ \A id \in Addressed(req[w]) : files[id].deleted)
            => (pc'[w] = "done" /\ (res'[w].msg = "File not found" \/ CountFailed(w)))]_vars


\* Worker w's sub-action at pc p returned without an error in this step.
Applied(w, p) ==
  /\ pc[w] = p
  /\ Len(mem'[w].applied) > Len(mem[w].applied)

\* C29: a rename or a visibility change that returns without an error writes
\* the row from the copy the request loaded, with the one field changed: the
\* other columns are the copy's, whatever the stored row held.  With two
\* requests at a time the change of the other request is overwritten.
C29_WholeRowWrittenBack ==
  [][\A w \in Workers :
       /\ Applied(w, "rename") =>
            files'[mem[w].file.id] =
              RowOf([mem[w].file EXCEPT !.name = req[w].newName],
                    files[mem[w].file.id].tags, files[mem[w].file.id].groups, FALSE)
       /\ Applied(w, "setvis") =>
            files'[mem[w].file.id] =
              RowOf([mem[w].file EXCEPT !.isPublic = ParseBool(req[w].isPublic)[1]],
                    files[mem[w].file.id].tags, files[mem[w].file.id].groups, FALSE)]_vars

\* Both workers answered with success, one after a rename that changed the
\* row and one after a visibility change that changed it, and the row holds
\* one of the two changes only (no request renames back to "a" or sets the
\* file private).
C29_Witness ==
  \E v, w \in Workers :
    /\ pc[v] = "done" /\ res[v].ok /\ mem[v].applied = <<"rename">> /\ mem[v].changed
    /\ pc[w] = "done" /\ res[w].ok /\ mem[w].applied = <<"setvis">> /\ mem[w].changed
    /\ \/ files[1].name = "b" /\ ~files[1].isPublic
       \/ files[1].name = "a" /\ files[1].isPublic


\* C30: the handler function of a session route is called with the user its
\* own request's token resolved to, and the handler function of a route that
\* needs no session is called without a user.
C30_OwnUserPassed ==
  [][\A w \in Workers :
       (pc[w] = "inner" /\ pc'[w] = "done") =>
         mem'[w].user = (IF req[w].session THEN req[w].token ELSE 0)]_vars

\* A live file holds the public name and is public.
HoldsPublic(s) ==
  \E id \in FileIds : Live(id) /\ files[id].slug = s /\ files[id].isPublic

\* C31: public fetch serves content only for published files.  The preview
\* handler goes on to open a blob only if, in the store its lookup reads, a
\* live file holds the requested public name and is public, and the file it
\* then serves is that file; whenever no live public file holds the name
\* (never published, set to private, deleted) the lookup answers NotFound; and
\* a preview answers with content only after such a lookup: it starts to copy
\* only when it has opened the blob stored under the local name of the file it
\* found, copies bytes of the file it opened, and answers with content only
\* when that copy is through.
C31_PublicFetch ==
  [][\A w \in Workers :
       /\ (pc[w] = "prevfind" /\ pc'[w] # "prevfind") =>
            /\ pc'[w] = "prevopen" =>
                 /\ HoldsPublic(req[w].slug)
                 /\ Live(mem'[w].file.id)
                 /\ files[mem'[w].file.id].slug = req[w].slug
                 /\ files[mem'[w].file.id].isPublic
                 /\ mem'[w].file.localName = files[mem'[w].file.id].localName
            /\ ~HoldsPublic(req[w].slug) => (pc'[w] = "done" /\ res'[w] = NotFound)
       /\ (pc[w] # "prevcopy" /\ pc'[w] = "prevcopy") =>
            /\ pc[w] = "prevopen"
            /\ blobs[mem[w].file.localName] # NoBlob
            /\ mem'[w].sent = 0
       /\ (pc[w] = "prevcopy" /\ mem'[w].sent # mem[w].sent) =>
            /\ pc'[w] = "prevcopy"
            /\ mem'[w].sent > mem[w].sent
            /\ mem'[w].sent <= FileSize(w)
       /\ (req[w].kind = "preview" /\ pc'[w] = "done" /\ res'[w].code = 200) =>
            /\ pc[w] = "prevcopy"
            /\ mem[w].sent >= FileSize(w)
     ]_vars

\* File "a" was served under its public name by one fetch and has been deleted
\* since; a fetch of the same name was answered NotFound.
C31_Witness ==
  /\ files[1].deleted
  /\ \E w1, w2 \in Workers :
       /\ pc[w1] = "done" /\ res[w1] = Streamed
       /\ mem[w1].slug = 1 /\ mem[w1].file.id = 1 /\ mem[w1].sent = 2
       /\ pc[w2] = "done" /\ res[w2] = NotFound
       /\ mem[w2].slug = 1 /\ mem[w2].stage = "notfound"

====
